---- MODULE Spec2Model ----
(***************************************************************************)
(* Transaction processing pipeline of finance_manager:                     *)
(*   TransactionValidator -> FraudDetector -> RuleEngine -> ledger         *)
(* operation -> TransactionRepository.Save -> recordMetric,                *)
(* orchestrated by TransactionProcessor.ProcessTransaction.  Each call of  *)
(* ProcessTransaction is a process with its own transaction object; the    *)
(* validator's seen-ID set, the account store, the transaction store, the  *)
(* rule cache, the event channel, the metrics map and the processor mutex  *)
(* are shared.  Amounts are whole currency units.                          *)
(***************************************************************************)
EXTENDS Integers, Sequences, FiniteSets, TLC

\* ------------------------------------------------------------------ bounds

\* Number of ProcessTransaction calls of one run.
NumCalls == 2

\* Number of distinct transaction IDs the callers draw from.
NumTxIds == 2

Calls == 1..NumCalls

TxIds == 1..NumTxIds

\* ------------------------------------------------------- program constants

\* Capacity of the processor's event channel.
EventChCap == 1000

\* checkDepositLimits: const maxDepositAmount.
maxDepositAmount == 50000

\* checkWithdrawalLimits: const dailyWithdrawalLimit.
dailyWithdrawalLimit == 5000

\* Detector thresholds and weights of the fraud pattern registry.
LargeAmountThreshold == 10000

FrequentAmountThreshold == 5000

FrequentHourLimit == 6

WeightLargeAmount == 30

WeightFrequent == 25

WeightGeographical == 35

WeightVelocity == 40

\* applyTimeBasedModifiers: the late-night surcharge and its window.
LateNightSurcharge == 15

LateNightFrom == 23

LateNightTo == 5

MaxRiskScore == 100

\* ProcessTransaction's risk tiers.
SuspiciousAbove == 80

PendingAbove == 50

\* ------------------------------------------------------------ domain types

TypeDeposit == "deposit"

TypeWithdrawal == "withdrawal"

TypeTransfer == "transfer"

\* A TransactionType that is none of the three constants.
TypeUnknown == "refund"

StatusPending == "pending"

StatusCompleted == "completed"

StatusFailed == "failed"

StatusSuspicious == "suspicious"

\* The zero value of TransactionStatus (a Transaction built by a struct literal).
StatusZero == ""

AccountActive == "active"

AccountSuspended == "suspended"

\* Currency codes are strings; a string is modelled as its sequence of characters.
USD == <<"U", "S", "D">>

EUR == <<"E", "U", "R">>

LowerUsd == <<"u", "s", "d">>

ShortUs == <<"U", "S">>

UpperLetters ==
    {"A", "B", "C", "D", "E", "F", "G", "H", "I", "J", "K", "L", "M",
     "N", "O", "P", "Q", "R", "S", "T", "U", "V", "W", "X", "Y", "Z"}

\* The empty account identifier (the field left out of the request).
NoAccount == ""

\* An account identifier that is not a key of the account store.
MissingAccount == "a9"

\* A metadata key that is absent from the map.
Absent == "absent"

NoMeta == [location |-> Absent, velocity |-> Absent]

\* The metadata keys the rule actions write; none of them is present.
NoNotes == [flagged_reason |-> Absent, block_reason |-> Absent,
            requires_approval |-> Absent]

\* ------------------------------------------------------------------ errors

Nil == "nil"

ErrInvalidAmount == "invalid transaction amount"

ErrInvalidCurrency == "invalid currency"

ErrInvalidAccount == "invalid account"

ErrSameAccount == "cannot transfer to same account"

ErrFutureDate == "transaction date cannot be in the future"

ErrDuplicateTransaction == "duplicate transaction"

ErrInsufficientFunds == "insufficient funds"

ErrDuplicate == "duplicate entry"

ErrNotFound == "not found"

ErrCurrencyMismatch == "currency mismatch"

ErrNotActive == "account is not active"

ErrAccountRequired == "account is required"

ErrLimitExceeded == "limit exceeded"

ErrUnknownType == "unknown transaction type"

ErrUpdateFailed == "failed to update account"

\* A runtime panic (nil pointer dereference) unwinding the call.
Panic == "panic"

\* ------------------------------------------------------------- construction

\* The values a *slog.Logger field can hold.
NilLogger == "nil"

DefaultLogger == "slog.Default"

\* LoggerCallPanics as it would be if every logger field held a logger.
LoggerCallNeverPanics(logger) == FALSE

\* A method call on a logger field: a nil *slog.Logger is dereferenced.
LoggerCallPanics(logger) == logger = NilLogger

\* NewRuleEngine(ruleRepo, logger): a nil logger is replaced by slog.Default().
NewRuleEngine(logger) ==
    [logger |-> IF logger = NilLogger THEN DefaultLogger ELSE logger]

\* NewTransactionProcessor as it would be if the literal set the logger too.
NewTransactionProcessorWithLogger ==
    [logger |-> DefaultLogger, eventChCap |-> EventChCap,
     ruleEngine |-> NewRuleEngine(NilLogger)]

\* NewTransactionProcessor's composite literal sets txRepo, accountRepo,
\* ruleRepo, fraudDetector, ruleEngine (NewRuleEngine(ruleRepo, nil)), validator,
\* eventCh, workerPool and metrics; the logger field is not listed, so it keeps
\* its zero value.
NewTransactionProcessor ==
    [logger |-> NilLogger, eventChCap |-> EventChCap,
     ruleEngine |-> NewRuleEngine(NilLogger)]

\* Accounts the callers have saved in the account store before processing.
InitAccounts ==
    [a \in {"a1", "a2", "a3", "a4", "a5", "a6"} |->
        CASE a = "a1" -> [balance |-> 30000, currency |-> USD, status |-> AccountActive,
                          dailyLimit |-> 0, monthlyLimit |-> 0]
          [] a = "a2" -> [balance |-> 500, currency |-> USD, status |-> AccountActive,
                          dailyLimit |-> 0, monthlyLimit |-> 0]
          [] a = "a3" -> [balance |-> 1000, currency |-> EUR, status |-> AccountActive,
                          dailyLimit |-> 0, monthlyLimit |-> 0]
          [] a = "a4" -> [balance |-> 1000, currency |-> USD, status |-> AccountSuspended,
                          dailyLimit |-> 0, monthlyLimit |-> 0]
          [] a = "a5" -> [balance |-> 2000, currency |-> USD, status |-> AccountActive,
                          dailyLimit |-> 1000, monthlyLimit |-> 0]
          [] OTHER    -> [balance |-> 2000, currency |-> USD, status |-> AccountActive,
                          dailyLimit |-> 0, monthlyLimit |-> 1000]]

\* Wall-clock hours the calls may run at.
Hours == {3, 12, 23}

\* ------------------------------------------------------------------- state

VARIABLES
    pc,        \* pc[p]: the statement call p of ProcessTransaction is at
    tx,        \* tx[p]: the *domain.Transaction object call p was given
    verrs,     \* verrs[p]: ValidateTransaction's local slice errs
    lerr,      \* lerr[p]: what the ledger operation of call p returned
    vret,      \* vret[p]: what ValidateTransaction returned to call p
    result,    \* result[p]: what ProcessTransaction returned to the caller
    seen,      \* TransactionValidator.seen: the set of registered IDs
    accounts,  \* AccountRepository.accounts: id -> account
    txStore,   \* TransactionRepository.transactions: id -> the call whose object is stored
    ruleStore, \* RuleRepository.rules: the set of stored rules
    cache,     \* RuleEngine.cache: the entry under the key "active"
    eventCh,   \* TransactionProcessor.eventCh: the buffered events
    metrics,   \* TransactionProcessor.metrics["transactions_processed"]
    mu,        \* TransactionProcessor.mu: 0 when free, else the call holding it
    tx0,       \* history: tx[p] as it was submitted
    stages,    \* history: the pipeline stages call p has run
    pre,       \* history: the account store when the latest call was submitted
    cur,       \* history: the latest call submitted (0: none yet)
    prior,     \* history: prior[p], the IDs carried by the calls submitted before p
    ctxDone,   \* ctxDone[p]: the Done channel of call p's context is closed
    fnTx,      \* direct calls: the transaction handed to the component
    fnHour,    \* direct calls: the hour of the wall clock
    fnOut,     \* direct calls: what the component returned
    fnLeft,    \* direct calls: the number of calls the caller still makes
    due,       \* history: no EvaluateRules since construction or InvalidateCache
    snapshot,  \* history: the rule list of the latest fetch, as it was fetched
    fatal      \* the runtime has thrown a fatal error: the process has exited

\* The arguments and the result of a component called directly, as the unit
\* tests of the fraud detector and of the rule engine call them.
fnVars == <<fnTx, fnHour, fnOut, fnLeft, due, snapshot>>

vars == <<pc, tx, verrs, vret, lerr, result, seen, accounts, txStore, ruleStore, cache,
          eventCh, metrics, mu, tx0, stages, pre, cur, prior, ctxDone, fatal, fnVars>>

\* The transaction of a call that has not been submitted yet.
NoTx ==
    [id |-> 0, type |-> TypeDeposit, amount |-> 0, currency |-> USD,
     from |-> NoAccount, to |-> NoAccount, meta |-> NoMeta, createdAt |-> "zero",
     status |-> StatusZero, riskScore |-> 0, flags |-> <<>>,
     metaNil |-> TRUE, notes |-> NoNotes]

\* A request: the fields of a transaction the caller chooses. createdAt is "zero"
\* (the zero time of a struct literal), "now" (NewTransaction) or "future" (more
\* than five minutes ahead of the clock). Metadata is the nil map (metaNil) in a
\* struct literal that sets none; NewTransaction makes an empty map.
Req(type, amount, currency, from, to, meta, createdAt, status) ==
    [type |-> type, amount |-> amount, currency |-> currency, from |-> from,
     to |-> to, meta |-> meta, createdAt |-> createdAt, status |-> status]

HighRiskMeta == [location |-> "high_risk_country", velocity |-> "high"]

\* The requests of the concurrent runs.
ConcInputs ==
    { Req(TypeTransfer, 100, USD, "a1", "a2", NoMeta, "now", StatusPending),
      Req(TypeWithdrawal, 600, USD, "a2", NoAccount, NoMeta, "now", StatusPending),
      Req(TypeDeposit, 20000, USD, NoAccount, "a1", NoMeta, "now", StatusPending),
      Req(TypeWithdrawal, 100, USD, "a1", NoAccount, HighRiskMeta, "now", StatusPending),
      Req(TypeDeposit, 0, USD, NoAccount, "a2", NoMeta, "now", StatusPending) }

\* The requests of the sequential runs: those above and more error cases.
TxInputs ==
    ConcInputs \cup
    { Req(TypeDeposit, 150, USD, NoAccount, "a2", NoMeta, "zero", StatusZero),
      Req(TypeTransfer, 700, USD, "a2", "a1", NoMeta, "now", StatusPending),
      Req(TypeTransfer, 100, LowerUsd, "a1", "a1", NoMeta, "future", StatusPending),
      Req(TypeWithdrawal, 6000, USD, "a1", NoAccount, NoMeta, "now", StatusPending),
      Req(TypeTransfer, 100, USD, "a1", "a3", NoMeta, "now", StatusPending),
      Req(TypeDeposit, 100, ShortUs, NoAccount, "a4", NoMeta, "now", StatusPending),
      Req(TypeTransfer, 100, USD, NoAccount, "a2", NoMeta, "now", StatusPending),
      Req(TypeTransfer, 100, USD, "a1", "a1", NoMeta, "now", StatusPending),
      Req(TypeDeposit, 100, USD, NoAccount, "a2", NoMeta, "future", StatusPending),
      Req(TypeDeposit, 20000, USD, NoAccount, "a1", HighRiskMeta, "now", StatusPending),
      Req(TypeWithdrawal, 6000, USD, "a1", NoAccount, HighRiskMeta, "now", StatusPending),
      Req(TypeUnknown, 100, USD, "a1", NoAccount, NoMeta, "now", StatusPending),
      Req(TypeDeposit, 100, USD, NoAccount, "a4", NoMeta, "now", StatusPending),
      Req(TypeWithdrawal, 100, USD, MissingAccount, NoAccount, NoMeta, "now", StatusPending),
      Req(TypeTransfer, 100, USD, "a1", "a4", NoMeta, "now", StatusPending),
      Req(TypeDeposit, 60000, USD, NoAccount, "a2", NoMeta, "now", StatusPending),
      Req(TypeTransfer, 600, USD, "a5", "a2", NoMeta, "now", StatusPending),
      Req(TypeTransfer, 1500, USD, "a5", "a2", NoMeta, "now", StatusPending),
      Req(TypeTransfer, 1500, USD, "a6", "a2", NoMeta, "now", StatusPending),
      Req(TypeDeposit, 100, EUR, NoAccount, "a2", NoMeta, "now", StatusPending) }

NewTx(id, req) ==
    [id |-> id, type |-> req.type, amount |-> req.amount, currency |-> req.currency,
     from |-> req.from, to |-> req.to, meta |-> req.meta, createdAt |-> req.createdAt,
     status |-> req.status, riskScore |-> 0, flags |-> <<>>,
     metaNil |-> (req.createdAt = "zero" /\ req.meta = NoMeta), notes |-> NoNotes]

\* --------------------------------------------------------------- validator

\* currencyRegex ^[A-Z]{3}$ applied to a string.
currencyRegexMatch(c) ==
    Len(c) = 3 /\ \A i \in 1..Len(c) : c[i] \in UpperLetters

\* ValidationErrs as it would be if only a negative amount were invalid.
ValidationErrsNegativeOnly(t) ==
    (IF t.amount < 0 THEN <<ErrInvalidAmount>> ELSE <<>>)
    \o (IF ~(Len(t.currency) = 3 /\ \A i \in 1..Len(t.currency) : t.currency[i] \in UpperLetters)
        THEN <<ErrInvalidCurrency>> ELSE <<>>)
    \o (IF t.type = TypeTransfer /\ (t.from = NoAccount \/ t.to = NoAccount)
        THEN <<ErrInvalidAccount>> ELSE <<>>)
    \o (IF t.type = TypeTransfer /\ t.from = t.to THEN <<ErrSameAccount>> ELSE <<>>)
    \o (IF t.createdAt = "future" THEN <<ErrFutureDate>> ELSE <<>>)

\* ValidateTransaction, lines 31-52: the violations, in the order they are appended.
ValidationErrs(t) ==
    (IF t.amount <= 0 THEN <<ErrInvalidAmount>> ELSE <<>>)
    \o (IF ~currencyRegexMatch(t.currency) THEN <<ErrInvalidCurrency>> ELSE <<>>)
    \o (IF t.type = TypeTransfer /\ (t.from = NoAccount \/ t.to = NoAccount)
        THEN <<ErrInvalidAccount>> ELSE <<>>)
    \o (IF t.type = TypeTransfer /\ t.from = t.to THEN <<ErrSameAccount>> ELSE <<>>)
    \o (IF t.createdAt = "future" THEN <<ErrFutureDate>> ELSE <<>>)

\* ValidateTransaction, line 54: the lookup of the ID in the seen set.
IsSeen(id, s) == id \in s

\* RegisterSeen as it would be if the ID were registered only after the checks passed.
RegisterSeenIfValid(id, errs, s) == IF errs = <<>> THEN s \cup {id} ELSE s

\* ValidateTransaction, line 57: the ID is registered whatever errs holds.
RegisterSeen(id, errs, s) == s \cup {id}

\* ValidateTransaction, lines 59-63: the aggregated error, or nil.
ValidationResult(errs) == IF Len(errs) > 0 THEN errs ELSE <<>>

\* ----------------------------------------------------------- fraud detector

detectLargeAmount(t) == t.amount > LargeAmountThreshold

detectFrequentTransactions(t, hour) ==
    t.amount > FrequentAmountThreshold /\ hour < FrequentHourLimit

detectGeographicalAnomaly(t) ==
    t.meta.location # Absent /\ t.meta.location = "high_risk_country"

detectVelocityAnomaly(t) ==
    t.meta.velocity # Absent /\ t.meta.velocity = "high"

\* applyTimeBasedModifiers as it would be with a window that starts at midnight.
applyTimeBasedModifiersFromMidnight(baseScore, hour) ==
    IF hour <= LateNightTo THEN baseScore + LateNightSurcharge ELSE baseScore

applyTimeBasedModifiers(baseScore, hour) ==
    IF hour >= LateNightFrom \/ hour <= LateNightTo
    THEN baseScore + LateNightSurcharge
    ELSE baseScore

Min(a, b) == IF a < b THEN a ELSE b

\* NewFraudDetector: the Name fields of the registry, in registry order.
PatternNames ==
    <<"large_amount", "frequent_transactions", "geographical_anomaly", "velocity_check">>

\* AnalyzeTransaction: the registry is walked in order; a triggered pattern adds
\* its weight and appends the flag its Detect function returns.
AnalyzeTransaction(t, hour) ==
    LET hits == <<[on |-> detectLargeAmount(t), w |-> WeightLargeAmount,
                   flag |-> "large_amount"],
                  [on |-> detectFrequentTransactions(t, hour), w |-> WeightFrequent,
                   flag |-> "frequent_transactions"],
                  [on |-> detectGeographicalAnomaly(t), w |-> WeightGeographical,
                   flag |-> "geographical_anomaly"],
                  [on |-> detectVelocityAnomaly(t), w |-> WeightVelocity,
                   flag |-> "velocity_anomaly"]>>
        W(i) == IF hits[i].on THEN hits[i].w ELSE 0
        F(i) == IF hits[i].on THEN <<hits[i].flag>> ELSE <<>>
        sum == W(1) + W(2) + W(3) + W(4)
        score == IF sum > 0 THEN applyTimeBasedModifiers(sum, hour) ELSE sum
    IN  [score |-> Min(score, MaxRiskScore), flags |-> F(1) \o F(2) \o F(3) \o F(4)]

\* -------------------------------------------------------------- rule store

\* A decoded JSON value as encoding/json stores it in an interface{}: a number
\* is a float64, a string a string, an array a []interface{}, an object a
\* map[string]interface{}.
Num(n) == [kind |-> "number", num |-> n, str |-> <<>>, list |-> <<>>, obj |-> NoMeta]

Str(chars) == [kind |-> "string", num |-> 0, str |-> chars, list |-> <<>>, obj |-> NoMeta]

List(items) == [kind |-> "list", num |-> 0, str |-> <<>>, list |-> items, obj |-> NoMeta]

Obj(o) == [kind |-> "object", num |-> 0, str |-> <<>>, list |-> <<>>, obj |-> o]

\* Rule.Condition: a string that is the JSON text of a Condition, or is not JSON.
Cond(field, operator, value) ==
    [json |-> TRUE, field |-> field, operator |-> operator, value |-> value]

BadConditionJSON == [json |-> FALSE, field |-> "", operator |-> "", value |-> Num(0)]

\* Rule.Action: a string that is the JSON text of a RuleAction, or is not JSON.
Act(type) == [json |-> TRUE, type |-> type]

BadActionJSON == [json |-> FALSE, type |-> ""]

Rule(id, priority, isActive, condition, action) ==
    [id |-> id, priority |-> priority, isActive |-> isActive,
     condition |-> condition, action |-> action]

\* The comparison operators of checkAmountCondition and checkNumericCondition.
CompareOps == {">", ">=", "<", "<=", "==", "!="}

\* No rule saved.
NoRules == {}

\* A rule that blocks large amounts, and the rule of the integration test.
BlockRules ==
    { Rule("r-block", 10, TRUE, Cond("amount", ">", Num(5000)), Act("block_transaction")),
      Rule("r-block-large", 9, TRUE, Cond("amount", ">", Num(5000)), Act("block")) }

\* Rules that cannot be evaluated, an inactive rule, and two rules that can.
FaultyRules ==
    { Rule("r-badjson", 20, TRUE, BadConditionJSON, Act("flag_transaction")),
      Rule("r-field", 19, TRUE, Cond("country", "==", Str(<<"U", "S">>)), Act("notify")),
      Rule("r-op", 18, TRUE, Cond("amount", "=>", Num(50)), Act("notify")),
      Rule("r-type", 17, TRUE, Cond("amount", ">", Str(<<"5", "0">>)), Act("notify")),
      Rule("r-in", 16, TRUE, Cond("currency", "in", List(<<USD, EUR>>)), Act("notify")),
      Rule("r-badaction", 15, TRUE, Cond("amount", ">", Num(50)), BadActionJSON),
      Rule("r-off", 14, FALSE, Cond("amount", ">", Num(0)), Act("block_transaction")),
      Rule("r-usd", 6, TRUE, Cond("currency", "contains", Str(<<"U", "S">>)), Act("notify")),
      Rule("r-risk", 5, TRUE, Cond("risk_score", ">=", Num(50)), Act("flag_transaction")) }

\* A rule whose `contains` pattern is not a regular expression, and a rule after it.
BadPatternRules ==
    { Rule("r-pattern", 10, TRUE, Cond("currency", "contains", Str(<<"(">>)),
           Act("flag_transaction")),
      Rule("r-amount", 5, TRUE, Cond("amount", ">", Num(50)), Act("flag_transaction")) }

\* The rule stores the runs start from.
RuleSets == {NoRules, BlockRules, FaultyRules, BadPatternRules}

\* RuleRepository.GetActiveRules: the active rules in descending priority; rules
\* of equal priority come in any order (map iteration, then sort.Slice).
RECURSIVE GetActiveRules(_)
GetActiveRules(store) ==
    LET active == { r \in store : r.isActive }
    IN  IF active = {} THEN {<<>>}
        ELSE UNION { { <<r>> \o rest : rest \in GetActiveRules(active \ {r}) } :
                     r \in { x \in active : \A y \in active : x.priority >= y.priority } }

\* ------------------------------------------------------------- rule engine

\* An error of the rule engine (its text is only logged).
ErrRule == "rule error"

\* What a condition check returns: (bool, error), or a panic.
Check(hit, err) == [hit |-> hit, err |-> err]

\* regexp.Compile on a pattern of literal characters and groups: the parentheses
\* must balance. The depth after character i, or -1 once a group closes unopened.
RECURSIVE parenDepth(_, _, _)
parenDepth(pat, i, d) ==
    IF d < 0 \/ i > Len(pat) THEN d
    ELSE IF pat[i] = "(" THEN parenDepth(pat, i + 1, d + 1)
    ELSE IF pat[i] = ")" THEN parenDepth(pat, i + 1, d - 1)
    ELSE parenDepth(pat, i + 1, d)

regexpCompiles(pat) == parenDepth(pat, 1, 0) = 0

\* Regexp.MatchString of a compiled pattern: its literal text occurs in the value.
regexpMatchString(pat, value) ==
    LET lit == SelectSeq(pat, LAMBDA c : c \notin {"(", ")"})
    IN  \E k \in 0..(Len(value) - Len(lit)) :
            \A i \in 1..Len(lit) : value[k + i] = lit[i]

\* compareOp as it would be with > and >= exchanged for each other.
compareOpSwapped(operator, a, b) ==
    CASE operator = ">"  -> Check(a >= b, Nil)
      [] operator = ">=" -> Check(a > b, Nil)
      [] operator = "<"  -> Check(a < b, Nil)
      [] operator = "<=" -> Check(a <= b, Nil)
      [] operator = "==" -> Check(a = b, Nil)
      [] operator = "!=" -> Check(a # b, Nil)
      [] OTHER           -> Check(FALSE, ErrRule)

\* The operator switch shared by checkAmountCondition and checkNumericCondition.
compareOp(operator, a, b) ==
    CASE operator = ">"  -> Check(a > b, Nil)
      [] operator = ">=" -> Check(a >= b, Nil)
      [] operator = "<"  -> Check(a < b, Nil)
      [] operator = "<=" -> Check(a <= b, Nil)
      [] operator = "==" -> Check(a = b, Nil)
      [] operator = "!=" -> Check(a # b, Nil)
      [] OTHER           -> Check(FALSE, ErrRule)

checkAmountCondition(condition, amount) ==
    IF condition.value.kind # "number" THEN Check(FALSE, ErrRule)
    ELSE compareOp(condition.operator, amount, condition.value.num)

checkNumericCondition(condition, value) ==
    IF condition.value.kind # "number" THEN Check(FALSE, ErrRule)
    ELSE compareOp(condition.operator, value, condition.value.num)

\* checkStringCondition: the value must be a string, so the []string assertion of
\* `in` never holds; `contains` compiles its pattern with regexp.MustCompile.
checkStringCondition(condition, value) ==
    IF condition.value.kind # "string" THEN Check(FALSE, ErrRule)
    ELSE CASE condition.operator = "==" -> Check(value = condition.value.str, Nil)
           [] condition.operator = "!=" -> Check(value # condition.value.str, Nil)
           [] condition.operator = "contains" ->
                  IF regexpCompiles(condition.value.str)
                  THEN Check(regexpMatchString(condition.value.str, value), Nil)
                  ELSE Check(FALSE, Panic)
           [] condition.operator = "in" -> Check(FALSE, ErrRule)
           [] OTHER -> Check(FALSE, ErrRule)

\* checkMetadataCondition: every key of the condition's object is in the
\* metadata with the same text.
checkMetadataCondition(condition, meta) ==
    IF condition.value.kind # "object" THEN Check(FALSE, ErrRule)
    ELSE Check(\A k \in {"location", "velocity"} :
                   condition.value.obj[k] # Absent
                   => (meta[k] # Absent /\ meta[k] = condition.value.obj[k]), Nil)

\* string(tx.Type): the characters of a transaction type.
typeString(type) ==
    CASE type = TypeDeposit    -> <<"d", "e", "p", "o", "s", "i", "t">>
      [] type = TypeWithdrawal -> <<"w", "i", "t", "h", "d", "r", "a", "w", "a", "l">>
      [] type = TypeTransfer   -> <<"t", "r", "a", "n", "s", "f", "e", "r">>
      [] type = TypeUnknown    -> <<"r", "e", "f", "u", "n", "d">>

checkCondition(condition, t) ==
    CASE condition.field = "amount"     -> checkAmountCondition(condition, t.amount)
      [] condition.field = "currency"   -> checkStringCondition(condition, t.currency)
      [] condition.field = "type"       -> checkStringCondition(condition, typeString(t.type))
      [] condition.field = "risk_score" -> checkNumericCondition(condition, t.riskScore)
      [] condition.field = "metadata"   -> checkMetadataCondition(condition, t.meta)
      [] OTHER                          -> Check(FALSE, ErrRule)

\* parseCondition: json.Unmarshal of the rule's condition string.
parseCondition(conditionStr) == IF conditionStr.json THEN Nil ELSE ErrRule

\* parseAction: json.Unmarshal of the rule's action string.
parseAction(actionStr) == IF actionStr.json THEN Nil ELSE ErrRule

\* evaluateRule: the RuleResult and the error (or the panic of the check).
evaluateRule(rule, t) ==
    LET res(triggered, type) ==
            [ruleID |-> rule.id, triggered |-> triggered, actionType |-> type]
        chk == checkCondition(rule.condition, t)
    IN  IF parseCondition(rule.condition) # Nil
        THEN [result |-> res(FALSE, ""), err |-> ErrRule]
        ELSE IF chk.err # Nil THEN [result |-> res(FALSE, ""), err |-> chk.err]
        ELSE IF chk.hit /\ parseAction(rule.action) # Nil
        THEN [result |-> res(TRUE, ""), err |-> ErrRule]
        ELSE [result |-> res(chk.hit, IF chk.hit THEN rule.action.type ELSE ""),
              err |-> Nil]

\* getRulePriority: the priority of the cached rule with the ID; the store is
\* asked for an ID the cache does not hold, and 0 is the answer for an unknown ID.
getRulePriority(cached, store, ruleID) ==
    IF \E i \in 1..Len(cached) : cached[i].id = ruleID
    THEN cached[CHOOSE i \in 1..Len(cached) :
                    /\ cached[i].id = ruleID
                    /\ \A j \in 1..(i - 1) : cached[j].id # ruleID].priority
    ELSE IF \E r \in store : r.id = ruleID
    THEN (CHOOSE r \in store : r.id = ruleID).priority
    ELSE 0

\* The insertion sort of slices.SortFunc: result r is moved before the results
\* already placed whose priority is greater.
RECURSIVE insertByPriority(_, _, _, _)
insertByPriority(sorted, r, cached, store) ==
    IF sorted # <<>>
       /\ getRulePriority(cached, store, r.ruleID)
            < getRulePriority(cached, store, sorted[Len(sorted)].ruleID)
    THEN Append(insertByPriority(SubSeq(sorted, 1, Len(sorted) - 1), r, cached, store),
                sorted[Len(sorted)])
    ELSE Append(sorted, r)

RECURSIVE insertionSort(_, _, _)
insertionSort(results, cached, store) ==
    IF results = <<>> THEN <<>>
    ELSE insertByPriority(insertionSort(SubSeq(results, 1, Len(results) - 1), cached, store),
                          results[Len(results)], cached, store)

\* slices.SortFunc sorts a slice of up to maxInsertion elements by insertion; a
\* longer one is split around a pivot first.
maxInsertion == 12

\* The longest slice of results the rule sets below produce. A slice this long
\* is split once, and each part is short enough for the insertion sort.
MaxResults == maxInsertion + 1

\* The comparison function handed to slices.SortFunc is negative.
lessByPriority(x, y, cached, store) ==
    getRulePriority(cached, store, x.ruleID) < getRulePriority(cached, store, y.ruleID)

swap(data, x, y) == [data EXCEPT ![x] = data[y], ![y] = data[x]]

\* order2: the two positions in the order of their elements, and whether they
\* were swapped.
order2(data, x, y, cached, store) ==
    IF lessByPriority(data[y], data[x], cached, store)
    THEN [lo |-> y, hi |-> x, swaps |-> 1]
    ELSE [lo |-> x, hi |-> y, swaps |-> 0]

\* choosePivot on a slice of 8 to 49 elements: the position of the median of the
\* elements at the three quarter positions, and the number of swaps it took.
choosePivot(data, cached, store) ==
    LET q  == Len(data) \div 4
        o1 == order2(data, q + 1, 2 * q + 1, cached, store)
        o2 == order2(data, o1.hi, 3 * q + 1, cached, store)
        o3 == order2(data, o1.lo, o2.lo, cached, store)
    IN  [pivot |-> o3.hi, swaps |-> o1.swaps + o2.swaps + o3.swaps]

\* partition's two scans: up over the elements below the pivot, down over the
\* elements not below it. The pivot is at position 1.
RECURSIVE scanUp(_, _, _, _, _)
scanUp(data, i, j, cached, store) ==
    IF i <= j /\ lessByPriority(data[i], data[1], cached, store)
    THEN scanUp(data, i + 1, j, cached, store)
    ELSE i

RECURSIVE scanDown(_, _, _, _, _)
scanDown(data, i, j, cached, store) ==
    IF i <= j /\ ~lessByPriority(data[j], data[1], cached, store)
    THEN scanDown(data, i, j - 1, cached, store)
    ELSE j

\* partition's loop: the elements the scans stop at are exchanged until the
\* scans meet, and the pivot is put between the two parts.
RECURSIVE partitionLoop(_, _, _, _, _)
partitionLoop(data, i, j, cached, store) ==
    LET up   == scanUp(data, i, j, cached, store)
        down == scanDown(data, up, j, cached, store)
    IN  IF up > down THEN [data |-> swap(data, down, 1), mid |-> down]
        ELSE partitionLoop(swap(data, up, down), up + 1, down - 1, cached, store)

\* partition: the pivot is moved to the front, then the loop.
partition(data, pivot, cached, store) ==
    partitionLoop(swap(data, 1, pivot), 2, Len(data), cached, store)

\* pdqsort on a slice of maxInsertion + 1 elements: a slice found in order (no
\* swap in choosePivot, no adjacent pair out of order) is left as it is;
\* otherwise it is partitioned and both parts are sorted by insertion.
pdqsort(data, cached, store) ==
    LET chosen == choosePivot(data, cached, store)
        inOrder == \A i \in 2..Len(data) : ~lessByPriority(data[i], data[i - 1], cached, store)
        parts == partition(data, chosen.pivot, cached, store)
    IN  IF chosen.swaps = 0 /\ inOrder THEN data
        ELSE insertionSort(SubSeq(parts.data, 1, parts.mid - 1), cached, store)
             \o <<parts.data[parts.mid]>>
             \o insertionSort(SubSeq(parts.data, parts.mid + 1, Len(data)), cached, store)

\* slices.SortFunc(results, cmp) with cmp the difference of the two priorities.
sortResults(results, cached, store) ==
    IF Len(results) <= maxInsertion THEN insertionSort(results, cached, store)
    ELSE pdqsort(results, cached, store)

\* The loop of EvaluateRules over the rules from position i on: a rule whose
\* evaluation fails is logged and skipped, a triggered rule is appended and logged.
RECURSIVE evaluateLoop(_, _, _, _, _)
evaluateLoop(logger, rules, i, t, results) ==
    IF i > Len(rules) THEN [results |-> results, err |-> Nil]
    ELSE LET r == evaluateRule(rules[i], t)
         IN  IF r.err = Panic THEN [results |-> results, err |-> Panic]
             ELSE IF r.err # Nil
             THEN IF LoggerCallPanics(logger) THEN [results |-> results, err |-> Panic]
                  ELSE evaluateLoop(logger, rules, i + 1, t, results)
             ELSE IF r.result.triggered
             THEN IF LoggerCallPanics(logger) THEN [results |-> results, err |-> Panic]
                  ELSE evaluateLoop(logger, rules, i + 1, t, Append(results, r.result))
             ELSE evaluateLoop(logger, rules, i + 1, t, results)

\* EvaluateRules on the rule list getActiveRules returned (the in-memory store
\* returns no error): the triggered results, sorted, or the panic of a check.
EvaluateRulesOn(logger, rules, store, t) ==
    LET run == evaluateLoop(logger, rules, 1, t, <<>>)
    IN  IF run.err # Nil THEN [results |-> <<>>, err |-> run.err]
        ELSE [results |-> sortResults(run.results, rules, store), err |-> Nil]

\* RuleEngine.cache["active"]: absent after NewRuleEngine and InvalidateCache.
\* The cached slice holds the pointers the store returned: aliased is the set of
\* IDs whose cached object is still the object the store holds under that ID.
NoCache == [present |-> FALSE, rules |-> <<>>, aliased |-> {}]

\* The IDs of a rule list.
RuleIDs(rules) == { rules[i].id : i \in 1..Len(rules) }

\* getActiveRules: the cached list when the key "active" is present, else the
\* list fetched from the store, which then is the cache entry.
getActiveRules(cached, fetched) ==
    IF cached.present THEN cached
    ELSE [present |-> TRUE, rules |-> fetched, aliased |-> RuleIDs(fetched)]

\* A RuleAction: its type and the parameters the handlers read. A parameter
\* that is absent or of another type reads as the zero value.
Action(type, reason, adjustment) ==
    [type |-> type, reason |-> reason, adjustment |-> adjustment]

ErrUnknownAction == "unknown action type"

\* No action has been handed to ExecuteAction.
NoAction == Action("none", "", 0)

\* What ExecuteAction leaves: the transaction and the error (or the panic).
ActionOutcome(t, err) == [tx |-> t, err |-> err]

\* handleFlagAction: the log call, then the map is made if nil and the reason
\* is written.
handleFlagAction(logger, action, t) ==
    IF LoggerCallPanics(logger) THEN ActionOutcome(t, Panic)
    ELSE ActionOutcome([t EXCEPT !.metaNil = FALSE, !.notes.flagged_reason = action.reason], Nil)

\* handleBlockAction: the log call, the status, then the write to the map, which
\* panics on a nil map.
handleBlockAction(logger, action, t) ==
    IF LoggerCallPanics(logger) THEN ActionOutcome(t, Panic)
    ELSE IF t.metaNil THEN ActionOutcome([t EXCEPT !.status = StatusFailed], Panic)
    ELSE ActionOutcome([t EXCEPT !.status = StatusFailed, !.notes.block_reason = action.reason],
               Nil)

\* handleApprovalAction: the log call, the status, then the write to the map.
handleApprovalAction(logger, action, t) ==
    IF LoggerCallPanics(logger) THEN ActionOutcome(t, Panic)
    ELSE IF t.metaNil THEN ActionOutcome([t EXCEPT !.status = StatusPending], Panic)
    ELSE ActionOutcome([t EXCEPT !.status = StatusPending, !.notes.requires_approval = "true"],
               Nil)

\* handleNotifyAction: the log call only.
handleNotifyAction(logger, action, t) ==
    IF LoggerCallPanics(logger) THEN ActionOutcome(t, Panic) ELSE ActionOutcome(t, Nil)

\* handleRiskAdjustAction as it would be without the two clamping branches.
handleRiskAdjustActionUnclamped(logger, action, t) ==
    ActionOutcome([t EXCEPT !.riskScore = @ + action.adjustment],
                  IF LoggerCallPanics(logger) THEN Panic ELSE Nil)

\* handleRiskAdjustAction: the score is moved and clamped, then logged.
handleRiskAdjustAction(logger, action, t) ==
    LET moved == t.riskScore + action.adjustment
        clamped == IF moved > 100 THEN 100 ELSE IF moved < 0 THEN 0 ELSE moved
    IN  ActionOutcome([t EXCEPT !.riskScore = clamped],
              IF LoggerCallPanics(logger) THEN Panic ELSE Nil)

\* ExecuteAction: the switch on the action type.
ExecuteAction(logger, action, t) ==
    CASE action.type = "flag_transaction"  -> handleFlagAction(logger, action, t)
      [] action.type = "block_transaction" -> handleBlockAction(logger, action, t)
      [] action.type = "require_approval"  -> handleApprovalAction(logger, action, t)
      [] action.type = "notify"            -> handleNotifyAction(logger, action, t)
      [] action.type = "adjust_risk_score" -> handleRiskAdjustAction(logger, action, t)
      [] OTHER                             -> ActionOutcome(t, ErrUnknownAction)

\* ------------------------------------------------------------ repositories

\* RuleRepository.Save: ErrDuplicate for an ID the map holds, else the rule is
\* stored.
SaveRule(store, rule) ==
    IF \E r \in store : r.id = rule.id THEN [store |-> store, err |-> ErrDuplicate]
    ELSE [store |-> store \cup {rule}, err |-> Nil]

\* RuleRepository.Update: ErrNotFound for an ID the map does not hold, else the
\* entry is replaced by the caller's object.
UpdateRule(store, rule) ==
    IF ~\E r \in store : r.id = rule.id THEN [store |-> store, err |-> ErrNotFound]
    ELSE [store |-> { r \in store : r.id # rule.id } \cup {rule}, err |-> Nil]

\* RuleRepository.Deactivate: ErrNotFound for an unknown ID, else IsActive is
\* cleared on the stored object.
DeactivateRule(store, id) ==
    IF ~\E r \in store : r.id = id THEN [store |-> store, err |-> ErrNotFound]
    ELSE [store |-> { IF r.id = id THEN [r EXCEPT !.isActive = FALSE] ELSE r : r \in store },
          err |-> Nil]

\* An assignment to the rule objects with the given ID that a slice of pointers
\* shares with the store: the cached slice sees the new field values.
Reassigned(cached, id, rule) ==
    IF id \in cached.aliased
    THEN [cached EXCEPT !.rules = [i \in 1..Len(cached.rules) |->
                                      IF cached.rules[i].id = id THEN rule
                                      ELSE cached.rules[i]]]
    ELSE cached

\* AccountRepository.GetByID: ErrNotFound for an ID that is not a key of the map.
AccountExists(accts, id) == id \in DOMAIN accts

\* AccountRepository.Update: fails when the account is absent. GetByID returns the
\* stored pointer, so the fields the caller assigned are already in the store.
UpdateOk(accts, id) == id \in DOMAIN accts

\* TransactionRepository.Save: the ID must not be a key of the map yet.
SaveOk(store, id) == store[id] = 0

\* The transactions the store holds. The store keeps the caller's pointer, so a
\* stored transaction is the object of the call that saved it.
StoredTxs == { tx[txStore[i]] : i \in { j \in TxIds : txStore[j] # 0 } }

RECURSIVE SumAmounts(_)
SumAmounts(S) ==
    IF S = {} THEN 0
    ELSE LET t == CHOOSE x \in S : TRUE IN t.amount + SumAmounts(S \ {t})

\* A creation time inside the current day (and month): only "now" is.
InCurrentPeriod(t) == t.createdAt = "now"

\* TransactionRepository.GetDailyVolume.
GetDailyVolume(stored, acc) ==
    SumAmounts({ t \in stored : /\ (t.from = acc \/ t.to = acc)
                                /\ InCurrentPeriod(t)
                                /\ t.status = StatusCompleted })

\* TransactionRepository.GetMonthlyVolume.
GetMonthlyVolume(stored, acc) ==
    SumAmounts({ t \in stored : /\ (t.from = acc \/ t.to = acc)
                                /\ InCurrentPeriod(t)
                                /\ t.status = StatusCompleted })

\* ------------------------------------------------------- ledger operations

Ret(err, accts) == [err |-> err, accounts |-> accts]

\* checkAccountLimits: nil or the limit error.
checkAccountLimits(account, acc, t, stored) ==
    IF account.dailyLimit > 0 /\ GetDailyVolume(stored, acc) + t.amount > account.dailyLimit
    THEN ErrLimitExceeded
    ELSE IF account.monthlyLimit > 0
            /\ GetMonthlyVolume(stored, acc) + t.amount > account.monthlyLimit
    THEN ErrLimitExceeded
    ELSE Nil

\* checkDepositLimits.
checkDepositLimits(t) ==
    IF t.amount > maxDepositAmount THEN ErrLimitExceeded ELSE Nil

\* getDailyWithdrawal.
getDailyWithdrawal(stored, acc) ==
    SumAmounts({ t \in stored : /\ InCurrentPeriod(t)
                                /\ t.from = acc
                                /\ t.type = TypeWithdrawal
                                /\ t.status = StatusCompleted })

\* checkWithdrawalLimits.
checkWithdrawalLimits(acc, t, stored) ==
    IF getDailyWithdrawal(stored, acc) + t.amount > dailyWithdrawalLimit
    THEN ErrLimitExceeded
    ELSE Nil

\* processTransfer. Its first statement is p.logger.InfoContext(...).
processTransfer(logger, t, accts, stored) ==
    IF LoggerCallPanics(logger) THEN Ret(Panic, accts)
    ELSE IF ~AccountExists(accts, t.from) THEN Ret(ErrNotFound, accts)
    ELSE IF ~AccountExists(accts, t.to) THEN Ret(ErrNotFound, accts)
    ELSE IF accts[t.from].currency # accts[t.to].currency THEN Ret(ErrCurrencyMismatch, accts)
    ELSE IF accts[t.from].status # AccountActive THEN Ret(ErrNotActive, accts)
    ELSE IF accts[t.to].status # AccountActive THEN Ret(ErrNotActive, accts)
    ELSE IF accts[t.from].balance < t.amount THEN Ret(ErrInsufficientFunds, accts)
    ELSE IF checkAccountLimits(accts[t.from], t.from, t, stored) # Nil
         THEN Ret(checkAccountLimits(accts[t.from], t.from, t, stored), accts)
    ELSE LET moved == [accts EXCEPT ![t.from].balance = @ - t.amount,
                                    ![t.to].balance = @ + t.amount]
         IN  IF ~UpdateOk(moved, t.from) THEN Ret(ErrUpdateFailed, moved)
             ELSE IF ~UpdateOk(moved, t.to)
                  THEN Ret(ErrUpdateFailed, [moved EXCEPT ![t.from].balance = @ + t.amount])
             ELSE Ret(Nil, moved)

\* processDeposit as it would be without the log call.
processDepositUnlogged(logger, t, accts, stored) ==
    IF t.to = NoAccount THEN Ret(ErrAccountRequired, accts)
    ELSE IF ~AccountExists(accts, t.to) THEN Ret(ErrNotFound, accts)
    ELSE IF accts[t.to].status # AccountActive THEN Ret(ErrNotActive, accts)
    ELSE IF checkDepositLimits(t) # Nil THEN Ret(checkDepositLimits(t), accts)
    ELSE Ret(Nil, [accts EXCEPT ![t.to].balance = @ + t.amount])

\* processDeposit. Its first statement is p.logger.InfoContext(...).
processDeposit(logger, t, accts, stored) ==
    IF LoggerCallPanics(logger) THEN Ret(Panic, accts)
    ELSE IF t.to = NoAccount THEN Ret(ErrAccountRequired, accts)
    ELSE IF ~AccountExists(accts, t.to) THEN Ret(ErrNotFound, accts)
    ELSE IF accts[t.to].status # AccountActive THEN Ret(ErrNotActive, accts)
    ELSE IF checkDepositLimits(t) # Nil THEN Ret(checkDepositLimits(t), accts)
    ELSE LET credited == [accts EXCEPT ![t.to].balance = @ + t.amount]
         IN  IF ~UpdateOk(credited, t.to) THEN Ret(ErrUpdateFailed, credited)
             ELSE Ret(Nil, credited)

\* processWithdrawal as it would be with neither the log call nor the funds and
\* limit checks: the debit alone.
processWithdrawalUnchecked(logger, t, accts, stored) ==
    IF ~AccountExists(accts, t.from) THEN Ret(ErrNotFound, accts)
    ELSE Ret(Nil, [accts EXCEPT ![t.from].balance = @ - t.amount])

\* processWithdrawal. Its first statement is p.logger.InfoContext(...).
processWithdrawal(logger, t, accts, stored) ==
    IF LoggerCallPanics(logger) THEN Ret(Panic, accts)
    ELSE IF t.from = NoAccount THEN Ret(ErrAccountRequired, accts)
    ELSE IF ~AccountExists(accts, t.from) THEN Ret(ErrNotFound, accts)
    ELSE IF accts[t.from].status # AccountActive THEN Ret(ErrNotActive, accts)
    ELSE IF accts[t.from].balance < t.amount THEN Ret(ErrInsufficientFunds, accts)
    ELSE IF checkWithdrawalLimits(t.from, t, stored) # Nil
         THEN Ret(checkWithdrawalLimits(t.from, t, stored), accts)
    ELSE LET debited == [accts EXCEPT ![t.from].balance = @ - t.amount]
         IN  IF ~UpdateOk(debited, t.from) THEN Ret(ErrUpdateFailed, debited)
             ELSE Ret(Nil, debited)

\* executeTransaction's switch on the transaction type (the mutex is held).
executeSwitch(logger, t, accts, stored) ==
    CASE t.type = TypeTransfer   -> processTransfer(logger, t, accts, stored)
      [] t.type = TypeDeposit    -> processDeposit(logger, t, accts, stored)
      [] t.type = TypeWithdrawal -> processWithdrawal(logger, t, accts, stored)
      [] OTHER                   -> Ret(ErrUnknownType, accts)

\* CanLock as it would be if executeTransaction took no lock.
CanLockAlways(m) == TRUE

\* sync.RWMutex.Lock: the caller proceeds only when nobody holds the mutex.
CanLock(m) == m = 0

\* RiskTier as it would be without the pending tier.
RiskTierNoPending(score) ==
    IF score > SuspiciousAbove THEN "suspicious" ELSE "ledger"

\* RiskTier as it would be with the first test comparing against the lower bound.
RiskTierLowSuspicious(score) ==
    IF score > PendingAbove THEN "suspicious" ELSE "ledger"

\* ProcessTransaction's branch on the risk score (lines 116-131).
RiskTier(score) ==
    IF score > SuspiciousAbove THEN "suspicious"
    ELSE IF score > PendingAbove THEN "pending"
    ELSE "ledger"

\* ------------------------------------------------------------------ actions

\* No value yet: the call has not returned.
NoResult == "none"

\* ValidateTransaction has not returned to the call yet.
NotValidated == <<"none">>

\* ProcessTransaction wraps the validator's error.
ErrValidationFailed == "validation failed"

\* The processor, its repositories and the accounts after construction.
InitProc ==
    /\ pc = [p \in Calls |-> "idle"]
    /\ tx = [p \in Calls |-> NoTx]
    /\ verrs = [p \in Calls |-> <<>>]
    /\ vret = [p \in Calls |-> NotValidated]
    /\ lerr = [p \in Calls |-> Nil]
    /\ result = [p \in Calls |-> NoResult]
    /\ seen = {}
    /\ accounts = InitAccounts
    /\ txStore = [i \in TxIds |-> 0]
    /\ cache = NoCache
    /\ metrics = 0
    /\ mu = 0
    /\ tx0 = [p \in Calls |-> NoTx]
    /\ stages = [p \in Calls |-> {}]
    /\ pre = InitAccounts
    /\ cur = 0
    /\ prior = [p \in Calls |-> {}]
    /\ ctxDone = [p \in Calls |-> FALSE]
    /\ fatal = FALSE

\* No component has been called directly.
FnIdle ==
    [op |-> "none", score |-> 0, flags |-> <<>>, results |-> <<>>, err |-> Nil,
     fetched |-> FALSE, due |-> FALSE, action |-> NoAction]

\* No direct call is made in the runs of the processor.
NoDirectCalls ==
    /\ fnTx = NoTx
    /\ fnHour = 0
    /\ fnOut = FnIdle
    /\ fnLeft = 0
    /\ due = TRUE
    /\ snapshot = <<>>

\* The rules are saved in the rule store before the first call.
Init ==
    /\ InitProc
    /\ eventCh = <<>>
    /\ ruleStore \in RuleSets
    /\ NoDirectCalls

\* A caller builds a transaction and calls ProcessTransaction. Calls are taken in
\* the order of their numbers.
Submit(p, inputs) ==
    /\ pc[p] = "idle"
    /\ ~fatal
    /\ UNCHANGED <<ruleStore, fnVars, ctxDone, fatal>>
    /\ \A q \in Calls : q < p => pc[q] # "idle"
    /\ \E id \in TxIds, req \in inputs :
          /\ tx' = [tx EXCEPT ![p] = NewTx(id, req)]
          /\ tx0' = [tx0 EXCEPT ![p] = NewTx(id, req)]
    /\ pc' = [pc EXCEPT ![p] = "validate"]
    /\ pre' = accounts
    /\ cur' = p
    /\ prior' = [prior EXCEPT ![p] = { tx[q].id : q \in { r \in Calls : pc[r] # "idle" } }]
    /\ UNCHANGED <<verrs, vret, lerr, result, seen, accounts, txStore, cache, eventCh,
                   metrics, mu, stages>>

\* Concurrent callers: a call may start while others are in flight.
SubmitConc(p) == Submit(p, ConcInputs)

\* Sequential callers: a call starts when every earlier call has returned.
SubmitSeq(p) ==
    /\ \A q \in Calls : pc[q] \in {"idle", "done"}
    /\ Submit(p, TxInputs)

\* ValidationAborts as it would be if only the duplicate error ended the call.
ValidationAbortsOnDuplicateOnly(ret) == ret = <<ErrDuplicateTransaction>>

\* ProcessTransaction, lines 103-105: any error of the validator ends the call.
ValidationAborts(ret) == ret # <<>>

\* ValidateTransaction, lines 31-56: collect the violations, then look the ID up;
\* a seen ID returns ErrDuplicateTransaction at once (and ProcessTransaction,
\* lines 103-105, returns the wrapped error).
ValidateCheck(p) ==
    /\ pc[p] = "validate"
    /\ UNCHANGED <<ruleStore, fnVars, ctxDone, fatal>>
    /\ verrs' = [verrs EXCEPT ![p] = ValidationErrs(tx[p])]
    /\ IF IsSeen(tx[p].id, seen)
       THEN /\ vret' = [vret EXCEPT ![p] = <<ErrDuplicateTransaction>>]
            /\ IF ValidationAborts(<<ErrDuplicateTransaction>>)
               THEN /\ result' = [result EXCEPT ![p] = ErrValidationFailed]
                    /\ pc' = [pc EXCEPT ![p] = "done"]
               ELSE /\ pc' = [pc EXCEPT ![p] = "analyze"]
                    /\ UNCHANGED result
       ELSE /\ pc' = [pc EXCEPT ![p] = "register"]
            /\ UNCHANGED <<vret, result>>
    /\ UNCHANGED <<tx, lerr, seen, accounts, txStore, cache, eventCh, metrics, mu,
                   tx0, stages, pre, cur, prior>>

\* ValidateTransaction, lines 57-63: register the ID, then return the violations
\* (and ProcessTransaction, lines 103-105, returns the wrapped error if any).
ValidateRegister(p) ==
    /\ pc[p] = "register"
    /\ UNCHANGED <<ruleStore, fnVars, ctxDone, fatal>>
    /\ seen' = RegisterSeen(tx[p].id, verrs[p], seen)
    /\ vret' = [vret EXCEPT ![p] = ValidationResult(verrs[p])]
    /\ IF ValidationAborts(ValidationResult(verrs[p]))
       THEN /\ result' = [result EXCEPT ![p] = ErrValidationFailed]
            /\ pc' = [pc EXCEPT ![p] = "done"]
       ELSE /\ pc' = [pc EXCEPT ![p] = "analyze"]
            /\ UNCHANGED result
    /\ UNCHANGED <<tx, verrs, lerr, accounts, txStore, cache, eventCh, metrics, mu,
                   tx0, stages, pre, cur, prior>>

\* ProcessTransaction, lines 107-109: the fraud detector's score and flags are
\* written to the transaction.
Analyze(p) ==
    /\ pc[p] = "analyze"
    /\ UNCHANGED <<ruleStore, fnVars, ctxDone, fatal>>
    /\ \E hour \in Hours :
          LET r == AnalyzeTransaction(tx[p], hour)
          IN  tx' = [tx EXCEPT ![p].riskScore = r.score, ![p].flags = r.flags]
    /\ pc' = [pc EXCEPT ![p] = "rules"]
    /\ stages' = [stages EXCEPT ![p] = @ \cup {"analyze"}]
    /\ UNCHANGED <<verrs, vret, lerr, result, seen, accounts, txStore, cache, eventCh,
                   metrics, mu, tx0, pre, cur, prior>>

\* ProcessTransaction, lines 111-114: EvaluateRules takes the cached rule list,
\* or fetches the active rules into the cache, and evaluates each rule on the
\* transaction; the results are dropped. The in-memory rule store returns no
\* error; a panic of a condition check unwinds the call.
EvaluateRules(p) ==
    /\ pc[p] = "rules"
    /\ UNCHANGED <<ruleStore, fnVars, ctxDone, fatal>>
    /\ \E fetched \in GetActiveRules(ruleStore) :
          LET rules == getActiveRules(cache, fetched).rules
              r == EvaluateRulesOn(NewTransactionProcessor.ruleEngine.logger, rules,
                                   ruleStore, tx[p])
          IN  /\ cache' = getActiveRules(cache, fetched)
              /\ IF r.err # Nil
                 THEN /\ result' = [result EXCEPT ![p] = r.err]
                      /\ pc' = [pc EXCEPT ![p] = "done"]
                 ELSE /\ pc' = [pc EXCEPT ![p] = "branch"]
                      /\ UNCHANGED result
    /\ stages' = [stages EXCEPT ![p] = @ \cup {"rules"}]
    /\ UNCHANGED <<tx, verrs, vret, lerr, seen, accounts, txStore, eventCh,
                   metrics, mu, tx0, pre, cur, prior>>

\* MutexAtSend as it would be if the send were made under the processor mutex.
MutexAtSendHeld(m, p) == p

\* ProcessTransaction, lines 116-123: the branch that sends the event takes no
\* lock, so the mutex is as it was.
MutexAtSend(m, p) == m

\* ProcessTransaction, lines 116-127: the branch on the risk score.
RiskBranch(p) ==
    /\ pc[p] = "branch"
    /\ UNCHANGED <<ruleStore, fnVars, ctxDone, fatal>>
    /\ CASE RiskTier(tx[p].riskScore) = "suspicious" ->
                /\ tx' = [tx EXCEPT ![p].status = StatusSuspicious]
                /\ pc' = [pc EXCEPT ![p] = "emit"]
                /\ mu' = MutexAtSend(mu, p)
         [] RiskTier(tx[p].riskScore) = "pending" ->
                /\ tx' = [tx EXCEPT ![p].status = StatusPending]
                /\ pc' = [pc EXCEPT ![p] = "save"]
                /\ UNCHANGED mu
         [] OTHER ->
                /\ pc' = [pc EXCEPT ![p] = "lock"]
                /\ UNCHANGED <<tx, mu>>
    /\ UNCHANGED <<verrs, vret, lerr, result, seen, accounts, txStore, cache, eventCh,
                   metrics, tx0, stages, pre, cur, prior>>

\* ProcessTransaction, lines 118-123: the send on the buffered event channel
\* blocks while the channel is full.
EmitEvent(p) ==
    /\ pc[p] = "emit"
    /\ UNCHANGED <<ruleStore, fnVars, ctxDone, fatal>>
    /\ Len(eventCh) < NewTransactionProcessor.eventChCap
    /\ eventCh' = Append(eventCh, [transactionID |-> tx[p].id,
                                   type |-> "transaction_suspicious",
                                   riskScore |-> tx[p].riskScore,
                                   flags |-> tx[p].flags])
    /\ pc' = [pc EXCEPT ![p] = "save"]
    /\ stages' = [stages EXCEPT ![p] = @ \cup {"event"}]
    /\ UNCHANGED <<tx, verrs, vret, lerr, result, seen, accounts, txStore, cache,
                   metrics, mu, tx0, pre, cur, prior>>

\* executeTransaction, line 146: p.mu.Lock().
Lock(p) ==
    /\ pc[p] = "lock"
    /\ UNCHANGED <<ruleStore, fnVars, ctxDone, fatal>>
    /\ CanLock(mu)
    /\ mu' = p
    /\ pc' = [pc EXCEPT ![p] = "ledger"]
    /\ stages' = [stages EXCEPT ![p] = @ \cup {"ledger"}]
    /\ UNCHANGED <<tx, verrs, vret, lerr, result, seen, accounts, txStore, cache,
                   eventCh, metrics, tx0, pre, cur, prior>>

\* executeTransaction, lines 149-158: the ledger operation of the type.
LedgerOp(p) ==
    /\ pc[p] = "ledger"
    /\ UNCHANGED <<ruleStore, fnVars, ctxDone, fatal>>
    /\ LET r == executeSwitch(NewTransactionProcessor.logger, tx[p], accounts, StoredTxs)
       IN  /\ accounts' = r.accounts
           /\ lerr' = [lerr EXCEPT ![p] = r.err]
    /\ pc' = [pc EXCEPT ![p] = "unlock"]
    /\ UNCHANGED <<tx, verrs, vret, result, seen, txStore, cache, eventCh, metrics, mu,
                   tx0, stages, pre, cur, prior>>

\* StatusOnLedgerError as it would be if a failed ledger operation marked the
\* transaction failed.
StatusFailedOnLedgerError(status) == StatusFailed

\* ProcessTransaction, lines 127-129: the error of executeTransaction is returned
\* with no assignment to the transaction's status.
StatusOnLedgerError(status) == status

\* executeTransaction's deferred p.mu.Unlock(), then ProcessTransaction lines
\* 127-130: a panic unwinds the call, an error is returned as it is, and success
\* sets the status to completed.
Unlock(p) ==
    /\ pc[p] = "unlock"
    /\ UNCHANGED <<ruleStore, fnVars, ctxDone, fatal>>
    /\ mu' = 0
    /\ IF lerr[p] # Nil
       THEN /\ result' = [result EXCEPT ![p] = lerr[p]]
            /\ pc' = [pc EXCEPT ![p] = "done"]
            /\ tx' = [tx EXCEPT ![p].status = StatusOnLedgerError(@)]
       ELSE /\ tx' = [tx EXCEPT ![p].status = StatusCompleted]
            /\ pc' = [pc EXCEPT ![p] = "save"]
            /\ UNCHANGED result
    /\ UNCHANGED <<verrs, vret, lerr, seen, accounts, txStore, cache, eventCh, metrics,
                   tx0, stages, pre, cur, prior>>

\* ProcessTransaction, lines 133-135: txRepo.Save; its error is returned.
Save(p) ==
    /\ pc[p] = "save"
    /\ UNCHANGED <<ruleStore, fnVars, ctxDone, fatal>>
    /\ stages' = [stages EXCEPT ![p] = @ \cup {"save"}]
    /\ IF SaveOk(txStore, tx[p].id)
       THEN /\ txStore' = [txStore EXCEPT ![tx[p].id] = p]
            /\ pc' = [pc EXCEPT ![p] = "metric"]
            /\ UNCHANGED result
       ELSE /\ result' = [result EXCEPT ![p] = ErrDuplicate]
            /\ pc' = [pc EXCEPT ![p] = "done"]
            /\ UNCHANGED txStore
    /\ UNCHANGED <<tx, verrs, vret, lerr, seen, accounts, cache, eventCh, metrics, mu,
                   tx0, pre, cur, prior>>

\* ProcessTransaction, lines 137-138: recordMetric takes the processor mutex,
\* adds one to the counter and releases it; the call returns nil.
RecordMetric(p) ==
    /\ pc[p] = "metric"
    /\ UNCHANGED <<ruleStore, fnVars, ctxDone, fatal>>
    /\ CanLock(mu)
    /\ metrics' = metrics + 1
    /\ stages' = [stages EXCEPT ![p] = @ \cup {"metric"}]
    /\ result' = [result EXCEPT ![p] = Nil]
    /\ pc' = [pc EXCEPT ![p] = "done"]
    /\ UNCHANGED <<tx, verrs, vret, lerr, seen, accounts, txStore, cache, eventCh, mu,
                   tx0, pre, cur, prior>>

\* The steps of a call after it was submitted.
Step(p) ==
    /\ ~fatal
    /\ \/ ValidateCheck(p)
       \/ ValidateRegister(p)
       \/ Analyze(p)
       \/ EvaluateRules(p)
       \/ RiskBranch(p)
       \/ EmitEvent(p)
       \/ Lock(p)
       \/ LedgerOp(p)
       \/ Unlock(p)
       \/ Save(p)
       \/ RecordMetric(p)

\* The access of call p to the validator's seen map that is in progress: the
\* lookup of line 54 or the insert of line 57. TransactionValidator has no lock,
\* so the access starts as soon as the call gets there.
SeenAccess(p) ==
    CASE pc[p] = "validate" -> "read"
      [] pc[p] = "register" -> "write"
      [] OTHER -> "none"

\* The access of call p to the rule engine's cache map that is in progress:
\* getActiveRules looks the key up (line 609) and, on a miss, stores the fetched
\* list (line 618). RuleEngine has no lock either.
CacheAccess(p) ==
    CASE pc[p] = "rules" /\ cache.present -> "read"
      [] pc[p] = "rules" /\ ~cache.present -> "write"
      [] OTHER -> "none"

\* Two calls are inside accesses to the same map, one of them a write.
Overlap(access(_)) ==
    \E p, q \in Calls :
        /\ p # q
        /\ access(p) # "none"
        /\ access(q) # "none"
        /\ "write" \in {access(p), access(q)}

\* An unsynchronised access to a Go map while another goroutine writes it is a
\* data race. One outcome is that both accesses take effect, as the steps above
\* have it; the other is that the runtime's map code notices the concurrent
\* writer and throws "concurrent map writes" (or "concurrent map read and map
\* write"), a fatal error that no recover catches and that ends the process.
Throw ==
    /\ ~fatal
    /\ Overlap(SeenAccess) \/ Overlap(CacheAccess)
    /\ fatal' = TRUE
    /\ UNCHANGED <<pc, tx, verrs, vret, lerr, result, seen, accounts, txStore, ruleStore,
                   cache, eventCh, metrics, mu, tx0, stages, pre, cur, prior, ctxDone,
                   fnVars>>

Next == (\E p \in Calls : SubmitConc(p) \/ Step(p)) \/ Throw

Spec == Init /\ [][Next]_vars

NextSeq == \E p \in Calls : SubmitSeq(p) \/ Step(p)

SpecSeq == Init /\ [][NextSeq]_vars

\* ------------------------------------------------- a processor in service

\* An event an earlier call of the processor has sent. Nothing in the repository
\* receives from eventCh, so every event sent is still buffered.
EarlierEvent ==
    [transactionID |-> 0, type |-> "transaction_suspicious", riskScore |-> 90,
     flags |-> <<"geographical_anomaly", "velocity_anomaly">>]

\* The processor after earlier calls with other IDs have left n events on the
\* channel (a call with a score above 80 changes no account).
InitInService(n) ==
    /\ InitProc
    /\ eventCh = [i \in 1..n |-> EarlierEvent]
    /\ ruleStore = NoRules
    /\ NoDirectCalls

\* The channel has one free slot, or none.
InitFull == InitInService(EventChCap - 1) \/ InitInService(EventChCap)

\* The deadline of the call's context passes, or its cancel function is called,
\* while the call is at the send. No statement of ProcessTransaction and no
\* method of the in-memory repositories reads the context.
Cancel(p) ==
    /\ pc[p] = "emit"
    /\ ~ctxDone[p]
    /\ ~fatal
    /\ ctxDone' = [ctxDone EXCEPT ![p] = TRUE]
    /\ UNCHANGED <<pc, tx, verrs, vret, lerr, result, seen, accounts, txStore, ruleStore,
                   cache, eventCh, metrics, mu, tx0, stages, pre, cur, prior, fatal,
                   fnVars>>

NextFull == (\E p \in Calls : SubmitConc(p) \/ Step(p) \/ Cancel(p)) \/ Throw

SpecFull == InitFull /\ [][NextFull]_vars

\* The Go scheduler runs every goroutine that can take a step.
SpecFullLive == SpecFull /\ \A p \in Calls : WF_vars(Step(p))

\* ------------------------------------------- components called directly

\* The transactions handed to a component: amounts around the detectors'
\* thresholds and the rules' values, the metadata the detectors read, and the
\* risk score the caller has set.
FnAmounts == {75, 500, 1000, 1500, 5000, 5001, 10000, 10001, 20000}

FnMetas ==
    { NoMeta, HighRiskMeta,
      [location |-> "high_risk_country", velocity |-> Absent],
      [location |-> Absent, velocity |-> "high"],
      [location |-> "home", velocity |-> "low"] }

FnScores == {0, 75, 100}

FnTxs ==
    { [NoTx EXCEPT !.id = 1, !.amount = a, !.meta = m, !.riskScore = s,
                   !.metaNil = (m = NoMeta)] :
        a \in FnAmounts, m \in FnMetas, s \in FnScores }

\* time.Now().Hour().
FnHours == 0..23

\* One rule comparing the amount or the risk score with a number.
ComparisonRules ==
    { { Rule("r1", 10, TRUE, Cond(f, op, Num(v)), Act("flag_transaction")) } :
        f \in {"amount", "risk_score"}, op \in CompareOps, v \in {75, 1000} }

\* One rule on the currency or the type: equal to or different from a string,
\* or `in` a list of strings.
StringRules ==
    { { Rule("r1", 10, TRUE, Cond("currency", op, Str(v)), Act("flag_transaction")) } :
        op \in {"==", "!="}, v \in {USD, EUR} }
    \cup { { Rule("r1", 10, TRUE, Cond("type", op, Str(typeString(v))),
                   Act("flag_transaction")) } :
             op \in {"==", "!="}, v \in {TypeDeposit, TypeTransfer} }
    \cup { { Rule("r1", 10, TRUE, Cond("currency", "in", List(l)), Act("flag_transaction")) } :
             l \in {<<USD, EUR>>, <<EUR>>} }
    \cup { { Rule("r1", 10, TRUE, Cond("type", "in", List(l)), Act("flag_transaction")) } :
             l \in { <<typeString(TypeDeposit), typeString(TypeTransfer)>>,
                     <<typeString(TypeTransfer)>> } }

\* Three rules that trigger on every amount, two of them of one priority.
TiedRules ==
    { Rule("t1", 5, TRUE, Cond("amount", ">", Num(50)), Act("flag_transaction")),
      Rule("t2", 5, TRUE, Cond("amount", ">", Num(50)), Act("notify")),
      Rule("t3", 9, TRUE, Cond("amount", ">", Num(50)), Act("notify")) }

\* MaxResults rules that trigger on every amount: the priorities 13 down to 3,
\* and two rules of priority 2.
ManyRules ==
    { Rule("m" \o ToString(n), n, TRUE, Cond("amount", ">", Num(50)), Act("notify")) :
        n \in 2..MaxResults }
    \cup { Rule("m1", 2, TRUE, Cond("amount", ">", Num(50)), Act("notify")) }

FnRuleSets == RuleSets \cup ComparisonRules \cup StringRules \cup {TiedRules, ManyRules}

\* A test builds the component, saves the rules, picks a transaction and makes
\* one call.
InitFn ==
    /\ InitProc
    /\ eventCh = <<>>
    /\ fnTx \in FnTxs
    /\ fnOut = FnIdle
    /\ fnLeft = 1
    /\ due = TRUE
    /\ snapshot = <<>>
    /\ \/ fnHour \in FnHours /\ ruleStore = NoRules
       \/ fnHour = 12 /\ ruleStore \in FnRuleSets

\* What a direct call leaves alone: the processor and its other components.
procVars ==
    <<pc, tx, verrs, vret, lerr, result, seen, accounts, txStore, eventCh, metrics, mu,
      tx0, stages, pre, cur, prior, ctxDone, fatal>>

\* FraudDetector.AnalyzeTransaction(tx) called directly.
FnAnalyze ==
    /\ fnLeft > 0
    /\ fnLeft' = fnLeft - 1
    /\ LET r == AnalyzeTransaction(fnTx, fnHour)
       IN  fnOut' = [FnIdle EXCEPT !.op = "analyze", !.score = r.score, !.flags = r.flags]
    /\ UNCHANGED <<procVars, ruleStore, cache, fnTx, fnHour, due, snapshot>>

\* RuleEngine.EvaluateRules(ctx, tx) called directly on an engine built by
\* NewRuleEngine(ruleRepo, nil).
FnEvaluateRules ==
    /\ fnLeft > 0
    /\ fnLeft' = fnLeft - 1
    /\ \E fetched \in GetActiveRules(ruleStore) :
          LET got == getActiveRules(cache, fetched)
              r == EvaluateRulesOn(NewRuleEngine(NilLogger).logger, got.rules, ruleStore,
                                   fnTx)
          IN  /\ cache' = got
              /\ snapshot' = IF cache.present THEN snapshot ELSE fetched
              /\ fnOut' = [FnIdle EXCEPT !.op = "rules", !.results = r.results,
                                         !.err = r.err, !.fetched = ~cache.present,
                                         !.due = due]
    /\ due' = FALSE
    /\ UNCHANGED <<procVars, ruleStore, fnTx, fnHour>>

NextFn == FnAnalyze \/ FnEvaluateRules

SpecFn == InitFn /\ [][NextFn]_vars

\* ------------------------------------------------ the rule engine in service

\* Number of calls a caller makes on the engine and its rule store in one run.
MaxEngineCalls == 4

\* The rules saved before the engine is used.
EngineRules ==
    { Rule("r-big", 10, TRUE, Cond("amount", ">", Num(1000)), Act("flag_transaction")),
      Rule("r-any", 5, TRUE, Cond("amount", ">", Num(50)), Act("notify")) }

\* A rule saved later.
NewRule == Rule("r-new", 7, TRUE, Cond("amount", ">", Num(100)), Act("require_approval"))

\* The changes a caller makes to a rule before it calls Update.
Edits(rule) ==
    { [rule EXCEPT !.condition = Cond("amount", ">", Num(100))],
      [rule EXCEPT !.priority = 1] } \ {rule}

\* The transaction the engine is used on: built by NewTransaction, or by a struct
\* literal that sets no Metadata.
EngineTxs ==
    { [NoTx EXCEPT !.id = 1, !.amount = 500, !.createdAt = "now",
                   !.status = StatusPending, !.riskScore = 75, !.metaNil = n] :
        n \in BOOLEAN }

\* The actions handed to ExecuteAction.
EngineActions ==
    { Action("flag_transaction", "fraud", 0), Action("block_transaction", "fraud", 0),
      Action("require_approval", "", 0), Action("notify", "", 0),
      Action("adjust_risk_score", "", 30), Action("adjust_risk_score", "", 0 - 200),
      Action("block", "", 0) }

\* NewRuleRepository, the rules saved, NewRuleEngine(ruleRepo, nil).
InitEngine ==
    /\ InitProc
    /\ eventCh = <<>>
    /\ ruleStore = EngineRules
    /\ fnTx \in EngineTxs
    /\ fnHour = 12
    /\ fnOut = FnIdle
    /\ fnLeft = MaxEngineCalls
    /\ due = TRUE
    /\ snapshot = <<>>

\* RuleEngine.InvalidateCache.
FnInvalidateCache ==
    /\ fnLeft > 0
    /\ fnLeft' = fnLeft - 1
    /\ cache' = NoCache
    /\ due' = TRUE
    /\ fnOut' = [FnIdle EXCEPT !.op = "invalidate"]
    /\ UNCHANGED <<procVars, ruleStore, fnTx, fnHour, snapshot>>

\* RuleRepository.Save of a new rule object.
FnSaveRule ==
    /\ fnLeft > 0
    /\ fnLeft' = fnLeft - 1
    /\ LET r == SaveRule(ruleStore, NewRule)
       IN  /\ ruleStore' = r.store
           /\ fnOut' = [FnIdle EXCEPT !.op = "save", !.err = r.err]
    /\ UNCHANGED <<procVars, cache, fnTx, fnHour, due, snapshot>>

\* RuleRepository.Update with a rule object the caller has built: the store
\* drops the object it held, which the cached slice keeps.
FnUpdateRule ==
    /\ fnLeft > 0
    /\ fnLeft' = fnLeft - 1
    /\ \E old \in ruleStore : \E new \in Edits(old) :
          LET r == UpdateRule(ruleStore, new)
          IN  /\ ruleStore' = r.store
              /\ cache' = [cache EXCEPT !.aliased = @ \ {old.id}]
              /\ fnOut' = [FnIdle EXCEPT !.op = "update", !.err = r.err]
    /\ UNCHANGED <<procVars, fnTx, fnHour, due, snapshot>>

\* RuleRepository.GetByID, assignments to the rule it returned (the stored
\* object), then RuleRepository.Update with that object.
FnUpdateRuleInPlace ==
    /\ fnLeft > 0
    /\ fnLeft' = fnLeft - 1
    /\ \E old \in ruleStore : \E new \in Edits(old) :
          LET r == UpdateRule(ruleStore, new)
          IN  /\ ruleStore' = r.store
              /\ cache' = Reassigned(cache, old.id, new)
              /\ fnOut' = [FnIdle EXCEPT !.op = "update", !.err = r.err]
    /\ UNCHANGED <<procVars, fnTx, fnHour, due, snapshot>>

\* RuleRepository.Deactivate of an active rule.
FnDeactivateRule ==
    /\ fnLeft > 0
    /\ fnLeft' = fnLeft - 1
    /\ \E old \in { r \in ruleStore : r.isActive } :
          LET r == DeactivateRule(ruleStore, old.id)
          IN  /\ ruleStore' = r.store
              /\ cache' = Reassigned(cache, old.id, [old EXCEPT !.isActive = FALSE])
              /\ fnOut' = [FnIdle EXCEPT !.op = "deactivate", !.err = r.err]
    /\ UNCHANGED <<procVars, fnTx, fnHour, due, snapshot>>

\* RuleEngine.ExecuteAction(ctx, action, tx) on the engine built by
\* NewRuleEngine(ruleRepo, nil).
FnExecuteAction ==
    /\ fnLeft > 0
    /\ fnLeft' = fnLeft - 1
    /\ \E action \in EngineActions :
          LET r == ExecuteAction(NewRuleEngine(NilLogger).logger, action, fnTx)
          IN  /\ fnTx' = r.tx
              /\ fnOut' = [FnIdle EXCEPT !.op = "action", !.err = r.err, !.action = action]
    /\ UNCHANGED <<procVars, ruleStore, cache, fnHour, due, snapshot>>

NextEngine ==
    \/ FnEvaluateRules
    \/ FnInvalidateCache
    \/ FnSaveRule
    \/ FnUpdateRule
    \/ FnUpdateRuleInPlace
    \/ FnDeactivateRule
    \/ FnExecuteAction

SpecEngine == InitEngine /\ [][NextEngine]_vars

\* ------------------------------------------------------------------ claims

Done(p) == pc[p] = "done"

\* The call has returned from the validator with nil.
PassedValidation(p) == vret[p] = <<>>

\* The call holds the processor mutex inside executeTransaction.
InLedger(p) == pc[p] \in {"ledger", "unlock"}

\* The call was low risk: its score sends it to the ledger operation.
LowRisk(p) == "analyze" \in stages[p] /\ tx[p].riskScore <= PendingAbove

\* Both accounts of a transfer exist, are active and have one currency.
TransferAccountsOk(t, accts) ==
    /\ t.from \in DOMAIN accts /\ t.to \in DOMAIN accts /\ t.from # t.to
    /\ accts[t.from].status = AccountActive /\ accts[t.to].status = AccountActive
    /\ accts[t.from].currency = accts[t.to].currency

\* C1: when every call of a run is a transfer of A from active account X to
\* another active account Y of the same currency, X holding at least N*A, the
\* calls carrying different IDs and running concurrently, the run ends with
\* every call returned to its caller and balance(X) + balance(Y) as before.
C1_ConcurrentTransfersConserve ==
    ( /\ \A p \in Calls : /\ Done(p)
                          /\ tx0[p].type = TypeTransfer
                          /\ tx0[p].from = "a1" /\ tx0[p].to = "a2"
                          /\ tx0[p].amount = 100
                          /\ LowRisk(p)
      /\ \A p, q \in Calls : p # q => tx0[p].id # tx0[q].id
      /\ InitAccounts["a1"].balance >= NumCalls * 100 )
    => /\ \A p \in Calls : result[p] # Panic
       /\ accounts["a1"].balance + accounts["a2"].balance
            = InitAccounts["a1"].balance + InitAccounts["a2"].balance

\* C2: at every instant at most one call is inside the ledger section of
\* executeTransaction, whatever accounts the calls touch.
C2_LedgerMutualExclusion ==
    \A p, q \in Calls : (InLedger(p) /\ InLedger(q)) => p = q

\* C2 witness: one call is inside the ledger section while another waits at Lock.
C2_Witness ==
    \E p, q \in Calls : p # q /\ InLedger(p) /\ pc[q] = "lock"

\* C3: every account balance is >= 0 in every reachable state.
C3_BalancesNonNegative ==
    \A a \in DOMAIN accounts : accounts[a].balance >= 0

\* C3 witness: a withdrawal of more than the source holds has run its ledger
\* operation and the call has ended, after another call has ended too.
C3_Witness ==
    \E p, q \in Calls :
        /\ p # q /\ Done(p) /\ Done(q)
        /\ tx0[p].type = TypeWithdrawal /\ "ledger" \in stages[p]
        /\ tx0[p].from \in DOMAIN accounts
        /\ tx0[p].amount > InitAccounts[tx0[p].from].balance

\* C4: a call with risk score <= 50 for a valid transfer of A from active X
\* (balance >= A) to another active Y of the same currency returns nil, leaves X
\* at Bx - A and Y at By + A, every other account unchanged, status completed.
C4_TransferSuccess ==
    \A p \in Calls :
        ( /\ Done(p) /\ p = cur
          /\ PassedValidation(p) /\ LowRisk(p)
          /\ tx0[p].type = TypeTransfer
          /\ TransferAccountsOk(tx0[p], pre)
          /\ pre[tx0[p].from].balance >= tx0[p].amount
          /\ pre[tx0[p].from].dailyLimit = 0 /\ pre[tx0[p].from].monthlyLimit = 0 )
        => /\ result[p] = Nil
           /\ accounts = [pre EXCEPT ![tx0[p].from].balance = @ - tx0[p].amount,
                                     ![tx0[p].to].balance = @ + tx0[p].amount]
           /\ tx[p].status = StatusCompleted

\* C5: a call with risk score <= 50 for a valid deposit of A (0 < A <= 50,000)
\* into an existing active account returns nil, leaves the account at B + A,
\* every other account unchanged, and the transaction stored as completed.
C5_DepositSuccess ==
    \A p \in Calls :
        ( /\ Done(p) /\ p = cur
          /\ PassedValidation(p) /\ LowRisk(p)
          /\ tx0[p].type = TypeDeposit
          /\ tx0[p].amount > 0 /\ tx0[p].amount <= maxDepositAmount
          /\ tx0[p].to \in DOMAIN pre
          /\ pre[tx0[p].to].status = AccountActive )
        => /\ result[p] = Nil
           /\ accounts = [pre EXCEPT ![tx0[p].to].balance = @ + tx0[p].amount]
           /\ txStore[tx0[p].id] = p
           /\ tx[p].status = StatusCompleted

\* C6: a withdrawal or transfer of A from a source whose balance is below A
\* (the call having reached the ledger operation with its accounts usable) fails
\* with the insufficient-funds error, changes no balance and is not completed.
C6_InsufficientFunds ==
    \A p \in Calls :
        ( /\ Done(p) /\ p = cur
          /\ PassedValidation(p) /\ LowRisk(p)
          /\ \/ /\ tx0[p].type = TypeWithdrawal
                /\ tx0[p].from \in DOMAIN pre
                /\ pre[tx0[p].from].status = AccountActive
             \/ /\ tx0[p].type = TypeTransfer
                /\ TransferAccountsOk(tx0[p], pre)
          /\ pre[tx0[p].from].balance < tx0[p].amount )
        => /\ result[p] = ErrInsufficientFunds
           /\ accounts = pre
           /\ tx[p].status # StatusCompleted

\* C7: a call whose risk score is above 50 never enters the ledger operation and
\* changes no account balance, whatever its type, amount and accounts.
C7_HighRiskSkipsLedger ==
    \A p \in Calls :
        ("analyze" \in stages[p] /\ tx[p].riskScore > PendingAbove)
        => /\ "ledger" \notin stages[p]
           /\ pc[p] \notin {"lock", "ledger", "unlock"}
           /\ (p = cur => accounts = pre)

\* C7 witness: a withdrawal the source could pay has returned nil with a score
\* above 50.
C7_Witness ==
    \E p \in Calls :
        /\ Done(p) /\ result[p] = Nil /\ tx[p].riskScore > PendingAbove
        /\ tx0[p].type = TypeWithdrawal
        /\ tx0[p].from \in DOMAIN accounts
        /\ accounts[tx0[p].from].balance >= tx0[p].amount

\* The status the risk tiers prescribe for a score.
ExpectedStatus(score) ==
    IF score > 80 THEN StatusSuspicious
    ELSE IF score > 50 THEN StatusPending
    ELSE StatusCompleted

\* C8: whenever a call has returned nil, the transaction's status is the one of
\* its risk tier and the transaction store holds it under its ID with exactly
\* that status.
C8_StatusByTier ==
    \A p \in Calls :
        result[p] = Nil
        => /\ tx[p].status = ExpectedStatus(tx[p].riskScore)
           /\ txStore[tx[p].id] # 0
           /\ tx[txStore[tx[p].id]].id = tx[p].id
           /\ tx[txStore[tx[p].id]].status = ExpectedStatus(tx[p].riskScore)
           /\ tx[txStore[tx[p].id]].riskScore = tx[p].riskScore

\* C8 witness: one call has returned nil as suspicious and another as pending.
C8_Witness ==
    \E p, q \in Calls :
        /\ result[p] = Nil /\ tx[p].riskScore > 80 /\ tx[p].status = StatusSuspicious
        /\ result[q] = Nil /\ tx[q].riskScore > 50 /\ tx[q].riskScore <= 80
        /\ tx[q].status = StatusPending

\* C9: a call whose validation returned an error has returned the validation
\* error, has run no later stage (analysis, rules, ledger, save, event, metric),
\* and left the transaction's fields and every account balance as they were.
C9_ValidationFailsClosed ==
    \A p \in Calls :
        (vret[p] # NotValidated /\ vret[p] # <<>>)
        => /\ Done(p)
           /\ result[p] = ErrValidationFailed
           /\ stages[p] = {}
           /\ tx[p] = tx0[p]
           /\ txStore[tx[p].id] # p
           /\ \A i \in 1..Len(eventCh) :
                 eventCh[i].transactionID = tx[p].id
                 => \E q \in Calls : q # p /\ tx[q].id = tx[p].id /\ "event" \in stages[q]
           /\ (p = cur => accounts = pre)

\* C9 witness: a call with a non-positive amount and a call with a duplicate ID
\* have both been rejected by the validator.
C9_Witness ==
    \E p, q \in Calls :
        /\ Done(p) /\ ErrInvalidAmount \in { vret[p][i] : i \in 1..Len(vret[p]) }
        /\ Done(q) /\ vret[q] = <<ErrDuplicateTransaction>>

\* C10: over a sequence of validator calls, a call returns the duplicate error
\* (and only it) exactly when an earlier call carried the same ID, whether or not
\* that earlier call passed its other checks.
C10_DuplicateIffSeenBefore ==
    \A p \in Calls :
        vret[p] # NotValidated
        => ((vret[p] = <<ErrDuplicateTransaction>>) <=> (tx0[p].id \in prior[p]))

\* C10 witness: a call with violations of its own got only the duplicate error,
\* its ID having been carried by an earlier call that failed its other checks.
C10_Witness ==
    \E p, q \in Calls :
        /\ q < p /\ tx0[q].id = tx0[p].id
        /\ vret[q] # NotValidated /\ vret[q] # <<>> /\ vret[q] # <<ErrDuplicateTransaction>>
        /\ vret[p] = <<ErrDuplicateTransaction>>
        /\ ValidationErrs(tx0[p]) # <<>>

\* The call went through validation with violations of its own.
FailedValidation(p) == vret[p] # NotValidated /\ vret[p] # <<>>

\* C11: of the concurrent calls that carry one transaction ID, exactly one passes
\* the duplicate check and every other one gets the duplicate error, so the
\* ledger operation of one ID is entered at most once.
C11_OneWinnerPerID ==
    \A p, q \in Calls :
        (p # q /\ tx0[p].id = tx0[q].id
         /\ vret[p] # NotValidated /\ vret[q] # NotValidated)
        => /\ (vret[p] = <<ErrDuplicateTransaction>>) # (vret[q] = <<ErrDuplicateTransaction>>)
           /\ ~("ledger" \in stages[p] /\ "ledger" \in stages[q])

\* A call has returned an error value (not nil, and not by a panic).
ReturnedError(p) == Done(p) /\ result[p] \notin {NoResult, Nil, Panic}

\* The completed withdrawals of the current day the store holds for an account.
CompletedWithdrawalsToday(acc) ==
    SumAmounts({ t \in StoredTxs : /\ t.type = TypeWithdrawal /\ t.from = acc
                                   /\ t.createdAt = "now"
                                   /\ t.status = StatusCompleted })

\* C12: for every account the completed withdrawals of the day sum to at most
\* 5,000, and a withdrawal that reaches the ledger operation and would take the
\* sum above 5,000 returns an error and changes no balance.
C12_DailyWithdrawalCeiling ==
    /\ \A a \in DOMAIN accounts : CompletedWithdrawalsToday(a) <= 5000
    /\ \A p \in Calls :
          ( /\ Done(p) /\ p = cur /\ "ledger" \in stages[p]
            /\ tx0[p].type = TypeWithdrawal /\ tx0[p].createdAt = "now"
            /\ tx0[p].from \in DOMAIN pre
            /\ pre[tx0[p].from].status = AccountActive
            /\ pre[tx0[p].from].balance >= tx0[p].amount
            /\ CompletedWithdrawalsToday(tx0[p].from) + tx0[p].amount > 5000 )
          => ReturnedError(p) /\ accounts = pre

\* C13: when the ledger operation of a call returned an error, the call returned
\* that error, the transaction's status is the one it was submitted with, and the
\* transaction store holds no completed record under the transaction's ID.
C13_LedgerErrorLeavesStatus ==
    \A p \in Calls :
        (Done(p) /\ "ledger" \in stages[p] /\ lerr[p] \notin {Nil, Panic})
        => /\ result[p] = lerr[p]
           /\ tx[p].status = tx0[p].status
           /\ (txStore[tx[p].id] # 0 => tx[txStore[tx[p].id]].status # StatusCompleted)

\* C13 witness: a call of an unknown transaction type has returned the error of
\* its ledger operation.
C13_Witness ==
    \E p \in Calls :
        /\ Done(p) /\ "ledger" \in stages[p]
        /\ lerr[p] = ErrUnknownType /\ result[p] = ErrUnknownType
        /\ tx0[p].status = StatusPending

\* C14: a call that fails validation leaves no trace: when every earlier call
\* that carried an ID failed validation, a later call carrying the same ID with
\* its fields corrected passes validation.
C14_FailedCallLeavesNoTrace ==
    \A p \in Calls :
        ( /\ vret[p] # NotValidated
          /\ ValidationErrs(tx0[p]) = <<>>
          /\ \E q \in Calls : q < p /\ tx0[q].id = tx0[p].id
          /\ \A q \in Calls : (q < p /\ tx0[q].id = tx0[p].id) => FailedValidation(q) )
        => vret[p] = <<>>

\* The elements of a sequence.
Range(seq) == { seq[i] : i \in 1..Len(seq) }

\* C15: for a transaction whose ID has not been seen before, ValidateTransaction
\* returns an error exactly when the amount is <= 0, or the currency is not
\* three uppercase letters, or a transfer has an empty source or destination or
\* the two equal, or the creation time is more than five minutes ahead; the
\* error lists every violation that holds, and the call returns nil otherwise.
C15_ValidationErrorsExact ==
    \A p \in Calls :
        (vret[p] # NotValidated /\ tx0[p].id \notin prior[p])
        => LET t == tx0[p]
               badAmount == t.amount <= 0
               badCurrency == t.currency \notin [1..3 -> UpperLetters]
               noAccount == t.type = TypeTransfer /\ (t.from = "" \/ t.to = "")
               sameAccount == t.type = TypeTransfer /\ t.from = t.to
               future == t.createdAt = "future"
           IN  /\ (vret[p] # <<>>)
                    <=> (badAmount \/ badCurrency \/ noAccount \/ sameAccount \/ future)
               /\ badAmount <=> ErrInvalidAmount \in Range(vret[p])
               /\ badCurrency <=> ErrInvalidCurrency \in Range(vret[p])
               /\ noAccount <=> ErrInvalidAccount \in Range(vret[p])
               /\ sameAccount <=> ErrSameAccount \in Range(vret[p])
               /\ future <=> ErrFutureDate \in Range(vret[p])
               /\ ErrDuplicateTransaction \notin Range(vret[p])

\* C15 witness: a call with an unseen ID was returned three violations at once
\* after a call with an amount of zero was returned the invalid-amount error.
C15_Witness ==
    \E p, q \in Calls :
        /\ p < q /\ tx0[p].id # tx0[q].id
        /\ tx0[p].amount = 0 /\ vret[p] = <<ErrInvalidAmount>>
        /\ vret[q] = <<ErrInvalidCurrency, ErrSameAccount, ErrFutureDate>>

\* C16: AnalyzeTransaction returns min(100, S + surcharge), S being the sum of
\* the weights of the triggered detectors (30 for amount > 10,000; 25 for amount
\* > 5,000 at an hour < 6; 35 for the high-risk location; 40 for high velocity)
\* and surcharge the late-night amount when S > 0 and the hour is in 23..5, else
\* 0; an amount > 10,000 gives a score >= 30 and the flag large_amount.
C16_RiskScoreFormula ==
    fnOut.op = "analyze"
    => LET S == (IF fnTx.amount > 10000 THEN 30 ELSE 0)
                + (IF fnTx.amount > 5000 /\ fnHour < 6 THEN 25 ELSE 0)
                + (IF fnTx.meta.location = "high_risk_country" THEN 35 ELSE 0)
                + (IF fnTx.meta.velocity = "high" THEN 40 ELSE 0)
           surcharge == IF S > 0 /\ fnHour \in ({23} \cup 0..5)
                        THEN LateNightSurcharge ELSE 0
       IN  /\ fnOut.score = (IF S + surcharge < 100 THEN S + surcharge ELSE 100)
           /\ fnTx.amount > 10000
                => (fnOut.score >= 30 /\ "large_amount" \in Range(fnOut.flags))

\* C16 witness: at 23 hours an amount of 20,000 with both metadata detectors
\* triggered was scored 100.
C16_Witness ==
    /\ fnOut.op = "analyze" /\ fnHour = 23
    /\ fnTx.amount = 20000 /\ fnTx.meta = HighRiskMeta
    /\ fnOut.score = 100

\* The comparison a condition's operator stands for.
Holds(op, a, b) ==
    CASE op = ">"  -> a > b
      [] op = ">=" -> a >= b
      [] op = "<"  -> a < b
      [] op = "<=" -> a <= b
      [] op = "==" -> a = b
      [] op = "!=" -> a # b

\* C17: for an active rule whose condition compares the amount or the risk
\* score with a number v by one of >, >=, <, <=, ==, !=, EvaluateRules returns
\* the rule as a triggered result exactly when the comparison holds.
C17_ComparisonRuleTriggers ==
    (fnOut.op = "rules" /\ ruleStore \in ComparisonRules)
    => \A r \in ruleStore :
          LET value == IF r.condition.field = "amount" THEN fnTx.amount ELSE fnTx.riskScore
              returned == \E i \in 1..Len(fnOut.results) :
                              /\ fnOut.results[i].ruleID = r.id
                              /\ fnOut.results[i].triggered
          IN  /\ fnOut.err = Nil
              /\ returned <=> Holds(r.condition.operator, value, r.condition.value.num)

\* C17 witness: the rule amount > 1000 was returned as triggered for an amount
\* of 1500.
C17_Witness ==
    /\ fnOut.op = "rules" /\ fnTx.amount = 1500
    /\ ruleStore = { Rule("r1", 10, TRUE, Cond("amount", ">", Num(1000)),
                          Act("flag_transaction")) }
    /\ Len(fnOut.results) = 1 /\ fnOut.results[1].triggered
    /\ fnOut.results[1].actionType = "flag_transaction"

\* The fields, and for each field the operators and the kind of value, that the
\* rule engine recognizes.
Recognized(c) ==
    \/ c.field \in {"amount", "risk_score"} /\ c.operator \in CompareOps
       /\ c.value.kind = "number"
    \/ c.field \in {"currency", "type"} /\ c.operator \in {"==", "!=", "contains"}
       /\ c.value.kind = "string"
    \/ c.field \in {"currency", "type"} /\ c.operator = "in" /\ c.value.kind = "list"
    \/ c.field = "metadata" /\ c.value.kind = "object"

\* The rule was returned as a triggered result of the direct call.
Returned(r) ==
    \E i \in 1..Len(fnOut.results) :
        fnOut.results[i].ruleID = r.id /\ fnOut.results[i].triggered

\* C18: EvaluateRules treats a rule that cannot be parsed, whose field or
\* operator is unrecognized, or whose value is unusable for its operator (a
\* wrong type, or a `contains` pattern that is no regular expression) as not
\* triggered: the call returns without error or panic, returns no such rule, and
\* still returns the comparison rules whose condition holds.
C18_FaultyRulesAreSkipped ==
    fnOut.op = "rules"
    => /\ fnOut.err = Nil
       /\ \A r \in ruleStore :
             /\ (~r.condition.json \/ ~r.action.json \/ ~Recognized(r.condition))
                  => ~Returned(r)
             /\ ( /\ r.isActive /\ r.condition.json /\ r.action.json
                  /\ r.condition.field \in {"amount", "risk_score"}
                  /\ Recognized(r.condition)
                  /\ Holds(r.condition.operator,
                           IF r.condition.field = "amount" THEN fnTx.amount
                           ELSE fnTx.riskScore,
                           r.condition.value.num) )
                  => Returned(r)

\* C19: no step of EvaluateRules inside ProcessTransaction acts on the call: as
\* with no rules at all, the step leaves the transaction as it is, returns
\* nothing to the caller and hands over to the branch on the risk score.
C19_RulesNeverAlterTheCall ==
    [][\A p \in Calls :
          (pc[p] = "rules" /\ pc'[p] # "rules")
          => (tx'[p] = tx[p] /\ result'[p] = result[p] /\ pc'[p] = "branch"
              /\ accounts' = accounts)]_vars

\* A block action, as the rule engine names it and as the integration test does.
BlockActions == {"block_transaction", "block"}

UnusableAccounts(t, accts) ==
    CASE t.type = TypeTransfer ->
            \/ t.from \notin DOMAIN accts \/ t.to \notin DOMAIN accts
            \/ accts[t.from].status # AccountActive
            \/ accts[t.to].status # AccountActive
            \/ accts[t.from].currency # accts[t.to].currency
      [] t.type = TypeDeposit ->
            t.to \notin DOMAIN accts \/ accts[t.to].status # AccountActive
      [] t.type = TypeWithdrawal ->
            t.from \notin DOMAIN accts \/ accts[t.from].status # AccountActive
      [] OTHER -> FALSE

\* C23: a transfer that reaches the ledger operation with a missing or non-active
\* account, or with accounts of different currencies, returns an error and
\* changes no balance; so does a deposit or a withdrawal on a missing or
\* non-active account.
C23_UnusableAccountFails ==
    \A p \in Calls :
        ( /\ Done(p) /\ p = cur /\ "ledger" \in stages[p]
          /\ UnusableAccounts(tx0[p], pre) )
        => ReturnedError(p) /\ accounts = pre

\* The transfers a stored transaction set makes checkAccountLimits count for an
\* account: completed, created in the current period, the account on either side.
CountedVolume(stored, acc) ==
    SumAmounts({ t \in stored : /\ (t.from = acc \/ t.to = acc)
                                /\ t.createdAt = "now"
                                /\ t.status = StatusCompleted })

\* C24: a transfer of A from a usable source with enough funds and a nonzero
\* daily (monthly) limit L is rejected with no balance change when V + A > L,
\* V being the completed volume of the day (month) on the account; it is not
\* rejected by this check when V + A <= L, and a limit of zero is never enforced.
C24_AccountLimits ==
    \A p \in Calls :
        ( /\ Done(p) /\ p = cur /\ "ledger" \in stages[p]
          /\ tx0[p].type = TypeTransfer
          /\ TransferAccountsOk(tx0[p], pre)
          /\ pre[tx0[p].from].balance >= tx0[p].amount )
        => LET src == pre[tx0[p].from]
               V == CountedVolume(StoredTxs \ {tx[p]}, tx0[p].from)
               over(L) == L > 0 /\ V + tx0[p].amount > L
           IN  IF over(src.dailyLimit) \/ over(src.monthlyLimit)
               THEN ReturnedError(p) /\ accounts = pre
               ELSE result[p] = Nil

\* C25: a deposit above 50,000 that reaches the ledger operation returns the
\* limit-exceeded error and leaves the destination's balance unchanged; a
\* deposit of at most 50,000 into a usable account is not rejected.
C25_DepositCeiling ==
    \A p \in Calls :
        ( /\ Done(p) /\ p = cur /\ "ledger" \in stages[p]
          /\ tx0[p].type = TypeDeposit
          /\ ~UnusableAccounts(tx0[p], pre) )
        => IF tx0[p].amount > 50000
           THEN result[p] = ErrLimitExceeded /\ accounts = pre
           ELSE result[p] = Nil

\* The event a call emits for its transaction.
EventOf(t) ==
    [transactionID |-> t.id, type |-> "transaction_suspicious",
     riskScore |-> t.riskScore, flags |-> t.flags]

\* The calls that have sent their event.
Emitters == { p \in Calls : "event" \in stages[p] }

\* C27: a call puts an event on the queue if and only if its computed risk score
\* is above 80: one event per such call, carrying the transaction's ID, the type
\* transaction_suspicious, the score and the flags; a call with a score of at
\* most 80, or one that failed validation, emits none.
C27_EventIffSuspicious ==
    /\ \A p \in Emitters :
          /\ PassedValidation(p) /\ tx[p].riskScore > 80
          /\ \E i \in 1..Len(eventCh) : eventCh[i] = EventOf(tx[p])
    /\ Len(eventCh) = Cardinality(Emitters)
    /\ \A p \in Calls :
          (Done(p) /\ "analyze" \in stages[p] /\ tx[p].riskScore > 80)
          => p \in Emitters

\* C28: the transaction is persisted before its event is emitted: whenever an
\* event of a call is on the queue, the transaction store already holds that
\* call's transaction, and a call whose save failed has emitted no event.
C28_SavedBeforeEvent ==
    \A p \in Emitters :
        /\ txStore[tx[p].id] = p
        /\ ~(Done(p) /\ result[p] = ErrDuplicate)

\* The call is blocked at the send: the channel is full.
BlockedAtSend(p) == pc[p] = "emit" /\ Len(eventCh) >= EventChCap

\* C29: a call with a score above 80 that waits on the full event queue stops
\* waiting and returns once its context is cancelled or its deadline has passed.
C29_CancelEndsWait ==
    \A p \in Calls : (BlockedAtSend(p) /\ ctxDone[p]) ~> Done(p)

\* C30: no call holds the processor mutex while it is at the send to the event
\* queue, and a call that has reached the lock of its ledger operation gets
\* through the operation and releases the mutex, also while another call is
\* blocked on the full queue (as long as the process is running).
C30_SendOutsideMutex ==
    /\ [](\A p \in Calls : pc[p] = "emit" => mu # p)
    /\ \A p \in Calls :
           (pc[p] = "lock") ~> (fatal \/ (pc[p] \in {"save", "done"} /\ mu # p))

\* C30 witness: one call is blocked on the full queue while another, submitted
\* after it, has run its ledger operation and is about to release the mutex.
C30_Witness ==
    \E p, q \in Calls :
        /\ p < q /\ BlockedAtSend(p)
        /\ pc[q] = "unlock" /\ mu = q /\ tx[q].riskScore <= 80

\* C21: every EvaluateRules call evaluates the active-rule list of its latest
\* fetch; it fetches exactly when no call has been made since construction or
\* since InvalidateCache, and a fetch returns the active rules of the store as
\* it then is. So a rule saved, updated or deactivated shows in no evaluation
\* before InvalidateCache, and in the first one after it.
C21_CacheUntilInvalidated ==
    fnOut.op = "rules"
    => /\ fnOut.fetched = fnOut.due
       /\ fnOut.fetched => snapshot \in GetActiveRules(ruleStore)
       /\ LET want == EvaluateRulesOn(NewRuleEngine(NilLogger).logger, snapshot,
                                      ruleStore, fnTx)
          IN  fnOut.results = want.results /\ fnOut.err = want.err

\* The status changes the processor and the rule actions may make.
AllowedChange(old, new) ==
    \/ old = new
    \/ old = StatusPending /\ new \in {StatusSuspicious, StatusCompleted}
    \/ old \in {StatusPending, StatusSuspicious} /\ new \in {StatusFailed, StatusPending}

\* C26: every change of a transaction's status by ProcessTransaction or by
\* ExecuteAction is pending to suspicious, pending to completed, pending or
\* suspicious to failed, or pending or suspicious to pending; a completed or
\* failed transaction is never changed again.
C26_StatusTransitions ==
    [][ /\ AllowedChange(fnTx.status, fnTx'.status)
        /\ \A p \in Calls :
              pc[p] # "idle" => AllowedChange(tx[p].status, tx'[p].status) ]_vars

\* Whether the detector at a position of the registry triggers, as specified:
\* amount above 10,000; amount above 5,000 before 6 o'clock; location
\* high_risk_country; velocity high.
Triggers(i, t, hour) ==
    CASE i = 1 -> t.amount > 10000
      [] i = 2 -> t.amount > 5000 /\ hour < 6
      [] i = 3 -> t.meta.location = "high_risk_country"
      [] OTHER -> t.meta.velocity = "high"

\* The registry names of the triggered detectors from position i on.
RECURSIVE TriggeredNames(_, _, _)
TriggeredNames(i, t, hour) ==
    IF i > Len(PatternNames) THEN <<>>
    ELSE (IF Triggers(i, t, hour) THEN <<PatternNames[i]>> ELSE <<>>)
         \o TriggeredNames(i + 1, t, hour)

\* C33: the flags AnalyzeTransaction returns are the registry names of the
\* triggered detectors, each once, in registry order.
C33_FlagsAreRegistryNames ==
    fnOut.op = "analyze" => fnOut.flags = TriggeredNames(1, fnTx, fnHour)

\* C40: a call that reached the ledger stage has ended by returning nil or an
\* error, never by a panic, and does not hold the processor mutex.
C40_NoPanicInLedger ==
    \A p \in Calls :
        (Done(p) /\ "ledger" \in stages[p]) => (result[p] # Panic /\ mu # p)

\* C31: the accesses to the validator's seen set are serialized, and so are the
\* accesses to the rule engine's cache: no two calls are at once inside an access
\* to the same structure when at least one of the two accesses is a write.
C31_AccessesSerialized == ~Overlap(SeenAccess) /\ ~Overlap(CacheAccess)

\* Every score AnalyzeTransaction returns lies in [0, 100].
AnalyzeScoresInRange ==
    \A t \in FnTxs, hour \in FnHours : AnalyzeTransaction(t, hour).score \in 0..MaxRiskScore

\* The score adjust_risk_score is specified to leave.
Clamped(score) ==
    IF score > MaxRiskScore THEN MaxRiskScore ELSE IF score < 0 THEN 0 ELSE score

\* C32: after any sequence of risk-score assignments by AnalyzeTransaction and by
\* ExecuteAction's adjust_risk_score the score lies in [0, 100], and one
\* adjust_risk_score call leaves min(100, max(0, score + adjustment)).
C32_RiskScoreClamped ==
    /\ [](fnTx.riskScore \in 0..MaxRiskScore /\ AnalyzeScoresInRange)
    /\ [][ (fnOut'.op = "action" /\ fnOut'.action.type = "adjust_risk_score")
             => /\ fnOut'.err = Nil
                /\ fnTx'.riskScore = Clamped(fnTx.riskScore + fnOut'.action.adjustment) ]_vars

\* C32 witness: an adjustment of +30 has been cut off at 100, and one of -200 at 0.
C32_Witness ==
    /\ fnOut.op = "action"
    /\ fnOut.action.type = "adjust_risk_score"
    /\ \/ fnOut.action.adjustment = 30 /\ fnTx.riskScore = MaxRiskScore
       \/ fnOut.action.adjustment < 0 /\ fnTx.riskScore = 0

\* C34: a rule on a string field (currency or type) with the operator `in` and a
\* list triggers exactly when the field's value is an element of the list, and
\* with == or != exactly when the value equals or differs from the string.
C34_StringConditionTriggers ==
    (fnOut.op = "rules" /\ ruleStore \in StringRules)
    => \A r \in ruleStore :
          LET value == IF r.condition.field = "currency" THEN fnTx.currency
                       ELSE typeString(fnTx.type)
          IN  /\ fnOut.err = Nil
              /\ Returned(r) <=>
                    IF r.condition.operator = "in"
                    THEN value \in Range(r.condition.value.list)
                    ELSE Holds(r.condition.operator, value, r.condition.value.str)

\* The position of a rule in the list the call evaluated.
Position(ruleID) == CHOOSE i \in 1..Len(snapshot) : snapshot[i].id = ruleID

\* The priority of the rule a result belongs to.
PriorityOf(res) == (CHOOSE r \in ruleStore : r.id = res.ruleID).priority

\* C35: the results EvaluateRules returns are exactly the triggered rules, one
\* result per rule, in ascending order of the rules' priority, and results of
\* equal priority are in the order in which their rules were evaluated.
C35_ResultsSortedStable ==
    (fnOut.op = "rules" /\ fnOut.err = Nil)
    => LET res == fnOut.results
           triggered == { r \in Range(snapshot) :
                            LET e == evaluateRule(r, fnTx)
                            IN  e.err = Nil /\ e.result.triggered }
       IN  /\ { res[i].ruleID : i \in 1..Len(res) } = { r.id : r \in triggered }
           /\ Len(res) = Cardinality(triggered)
           /\ \A i, j \in 1..Len(res) :
                 i < j => /\ PriorityOf(res[i]) <= PriorityOf(res[j])
                          /\ PriorityOf(res[i]) = PriorityOf(res[j])
                               => Position(res[i].ruleID) < Position(res[j].ruleID)

\* C36: ExecuteAction with a block_transaction action, on any transaction (also
\* one that has no metadata yet), returns no error, sets the status to failed,
\* puts the reason into the metadata and changes nothing else of the
\* transaction.
C36_BlockSetsFailedAndReason ==
    [][ (fnOut'.op = "action" /\ fnOut'.action.type = "block_transaction")
         => /\ fnOut'.err = Nil
            /\ fnTx' = [fnTx EXCEPT !.status = StatusFailed, !.metaNil = FALSE,
                                    !.notes.block_reason = fnOut'.action.reason] ]_vars

\* The ledger operation of the call has returned nil: it is the only step that
\* assigns balances.
LedgerSucceeded(p) ==
    "ledger" \in stages[p] /\ pc[p] \in {"unlock", "save", "metric", "done"} /\ lerr[p] = Nil

C38_EveryCallReturns ==
    \A p \in Calls : (pc[p] # "idle") ~> (Done(p) \/ fatal)

====
